---- MODULE Spec2Model ----
(***************************************************************************)
(* The LRU cache of PascalMinder/geoblock (lrucache/lru.go) as a state     *)
(* machine.  The cache is the triple (size, evictList, items) of the       *)
(* LRUCache struct.  evictList is the container/list, front (MRU) first;   *)
(* a *list.Element is represented by the position its referent currently   *)
(* has in evictList, so items maps a key to a position and every list      *)
(* operation relocates the pointers it moves.                              *)
(*                                                                         *)
(* The persistence controller (cachePersistence.go) is modelled with it:   *)
(* the CachePersist fields, the Run goroutine step by step (select, drain, *)
(* decide, wait, and flushIfDirty one file operation at a time), the       *)
(* request goroutine that changes the cache and calls MarkDirty, the       *)
(* directory of the target path, and time in ticks, which passes only      *)
(* while the worker is blocked.                                            *)
(*                                                                         *)
(* Import and Snapshot are also followed statement by statement, with the  *)
(* RWMutex, next to the other methods as single steps that need the lock.  *)
(* InitializeCache and ValidatePersistencePath are operators on the        *)
(* options and the disk; a path is the sequence of its components.         *)
(*                                                                         *)
(* The life of one controller runs from InitializeCache to the end of the  *)
(* process (a second Stop panics), run.workers counts the goroutines that  *)
(* run Run on it, and the Cache interface is kept beside the cache as a    *)
(* plain list of entries, most recently used first.                        *)
(***************************************************************************)
EXTENDS Integers, Sequences, FiniteSets, TLC

\* ------------------------------------------------------------- bounds
MaxCap == 3
MaxEntries == 3

\* The keys and values the callers use (interface{} in the source).
KeyNames == <<"A", "B", "C">>
AllKeys == {KeyNames[i] : i \in DOMAIN KeyNames}
Vals == <<"v1", "v2">>
Values == {Vals[i] : i \in DOMAIN Vals}
\* Go's nil interface value, and "no key argument".
Nil == "nil"
NoKey == "none"

VARIABLES
    size,       \* LRUCache.size
    evictList,  \* LRUCache.evictList: sequence of cacheEntry, MRU first
    items,      \* LRUCache.items: key -> list element (its position)
    ret,        \* the last call and what it returned
    added,      \* caller's record: keys passed to Add while only Add was called
    buf,        \* caller's bytes.Buffer (export / import tests)
    want,       \* what the caller put into buf: the snapshot or the payload
    phase,      \* caller's position in the export / import test
    persist,    \* CachePersist: ipDirty, ch (nudges pending), quit (closed?)
    ctxDone,    \* the context given to Run has been cancelled
    run,        \* the Run goroutine: position, flushIfDirty's caller and locals
    fs,         \* the directory of the target path: the target and the temp file
    clock,      \* time.Now() - lastFlush, the wait timer, and time since a write
    caller,     \* the request goroutine: position between cache call and MarkDirty
    obs,        \* observer's record of flushes and of the moment of shutdown
    lock,       \* LRUCache.lock, a sync.RWMutex: writer inside, readers inside
    gor,        \* goroutines inside Import and inside Snapshot / Export
    opt         \* the Options given to InitializeCache

cacheVars == <<size, evictList, items>>
testVars == <<buf, want, phase>>
persistVars == <<persist, ctxDone, run, fs, clock, caller, obs>>
lockVars == <<lock, gor>>
vars == <<size, evictList, items, ret, added, buf, want, phase,
          persist, ctxDone, run, fs, clock, caller, obs, lock, gor, opt>>

\* The cache object as one value.
Cache == [size |-> size, evictList |-> evictList, items |-> items]

EmptyMap == [k \in {} |-> 0]

Min(a, b) == IF a < b THEN a ELSE b

\* ------------------------------------------------- container/list steps
RemoveAt(l, p) == [i \in 1..(Len(l) - 1) |-> IF i < p THEN l[i] ELSE l[i + 1]]

\* Variant: the element stays where it is.
MoveToFrontNot(c, p) == c

\* evictList.MoveToFront(e), e the element at position p.
MoveToFront(c, p) ==
    [c EXCEPT !.evictList = <<c.evictList[p]>> \o RemoveAt(c.evictList, p),
              !.items = [k \in DOMAIN c.items |->
                           IF c.items[k] = p THEN 1
                           ELSE IF c.items[k] < p THEN c.items[k] + 1
                           ELSE c.items[k]]]

\* ------------------------------------------------------ LRUCache methods
NewLRUCache(n) == [size |-> n, evictList |-> <<>>, items |-> EmptyMap]

\* removeElement(entry), entry the element at position p: the element leaves
\* the list and the index entry of ITS KEY is deleted.
removeElement(c, p) ==
    LET e == c.evictList[p]
    IN  [c EXCEPT !.evictList = RemoveAt(c.evictList, p),
                  !.items = [k \in (DOMAIN c.items) \ {e.key} |->
                               IF c.items[k] > p THEN c.items[k] - 1
                               ELSE c.items[k]]]

\* Variant: evicts the newest entry instead of the oldest.
removeNewest(c) ==
    IF Len(c.evictList) > 0 THEN removeElement(c, 1) ELSE c

removeOldest(c) ==
    IF Len(c.evictList) > 0 THEN removeElement(c, Len(c.evictList)) ELSE c

\* Variant: a new key is pushed and nothing is ever evicted.
AddOpNoEvict(c, k, v) ==
    IF k \in DOMAIN c.items
    THEN LET moved == MoveToFront(c, c.items[k])
         IN  [cache |-> [moved EXCEPT !.evictList[1].value = v],
              evicted |-> FALSE]
    ELSE [cache |-> [c EXCEPT
                       !.evictList = <<[key |-> k, value |-> v]>> \o c.evictList,
                       !.items = [x \in (DOMAIN c.items) \cup {k} |->
                                    IF x = k THEN 1 ELSE c.items[x] + 1]],
          evicted |-> FALSE]

\* Variant: an existing key is moved to the front but keeps its old value.
AddOpKeepsValue(c, k, v) ==
    IF k \in DOMAIN c.items
    THEN [cache |-> MoveToFront(c, c.items[k]), evicted |-> FALSE]
    ELSE LET pushed ==
               [c EXCEPT !.evictList = <<[key |-> k, value |-> v]>> \o c.evictList,
                         !.items = [x \in (DOMAIN c.items) \cup {k} |->
                                      IF x = k THEN 1 ELSE c.items[x] + 1]]
         IN  IF Len(pushed.evictList) > pushed.size
             THEN [cache |-> removeOldest(pushed), evicted |-> TRUE]
             ELSE [cache |-> pushed, evicted |-> FALSE]

AddOp(c, k, v) ==
    IF k \in DOMAIN c.items
    THEN LET moved == MoveToFront(c, c.items[k])
         IN  [cache |-> [moved EXCEPT !.evictList[1].value = v],
              evicted |-> FALSE]
    ELSE LET pushed ==
               [c EXCEPT !.evictList = <<[key |-> k, value |-> v]>> \o c.evictList,
                         !.items = [x \in (DOMAIN c.items) \cup {k} |->
                                      IF x = k THEN 1 ELSE c.items[x] + 1]]
         IN  IF Len(pushed.evictList) > pushed.size
             THEN [cache |-> removeOldest(pushed), evicted |-> TRUE]
             ELSE [cache |-> pushed, evicted |-> FALSE]

\* Variant: a hit returns the value without promoting the entry.
GetOpNoPromote(c, k) ==
    IF k \notin DOMAIN c.items
    THEN [cache |-> c, value |-> Nil, ok |-> FALSE]
    ELSE [cache |-> c, value |-> c.evictList[c.items[k]].value, ok |-> TRUE]

GetOp(c, k) ==
    IF k \notin DOMAIN c.items
    THEN [cache |-> c, value |-> Nil, ok |-> FALSE]
    ELSE LET moved == MoveToFront(c, c.items[k])
         IN  [cache |-> moved, value |-> moved.evictList[1].value, ok |-> TRUE]

ContainsOp(c, k) == k \in DOMAIN c.items

\* Variant: removes the oldest entry instead of the entry of the key.
RemoveOpOldest(c, k) ==
    IF k \notin DOMAIN c.items
    THEN [cache |-> c, ok |-> FALSE]
    ELSE [cache |-> removeOldest(c), ok |-> TRUE]

RemoveOp(c, k) ==
    IF k \notin DOMAIN c.items
    THEN [cache |-> c, ok |-> FALSE]
    ELSE [cache |-> removeElement(c, c.items[k]), ok |-> TRUE]

KeysOp(c) == [i \in 1..Len(c.evictList) |-> c.evictList[i].key]

LengthOp(c) == Len(c.evictList)

\* Variant: the list is cleared, the index is not.
PurgeOpKeepsItems(c) == [c EXCEPT !.evictList = <<>>]

PurgeOp(c) == [c EXCEPT !.items = EmptyMap, !.evictList = <<>>]

SnapshotOp(c) ==
    [size |-> c.size,
     entries |-> [i \in 1..Len(c.evictList) |->
                    [Key |-> c.evictList[i].key, Value |-> c.evictList[i].value]]]

\* ------------------------------------------------------------ gob codec
\* The stream of an onDisk value: Size, the entry count, then K and V of
\* each entry in order.  Decoding reads one value from the front of the
\* stream and fails when the stream ends before the value does.
RECURSIVE Flatten(_)
Flatten(es) ==
    IF es = <<>> THEN <<>>
    ELSE <<Head(es).K, Head(es).V>> \o Flatten(Tail(es))

GobEncode(d) == <<d.Size, Len(d.Entries)>> \o Flatten(d.Entries)

GobDecode(b) ==
    IF Len(b) < 2 \/ b[2] < 0 \/ Len(b) < 2 + 2 * b[2]
    THEN [err |-> TRUE]
    ELSE [err |-> FALSE,
          data |-> [Size |-> b[1],
                    Entries |-> [i \in 1..b[2] |->
                                   [K |-> b[2 * i + 1], V |-> b[2 * i + 2]]]]]

ExportOp(c) ==
    LET s == SnapshotOp(c)
        data == [Size |-> s.size,
                 Entries |-> [i \in 1..Len(s.entries) |->
                                [K |-> s.entries[i].Key, V |-> s.entries[i].Value]]]
    IN  GobEncode(data)

\* Variant: the rebuild loop pushes each entry at the front.
RECURSIVE RebuildFront(_, _)
RebuildFront(c, es) ==
    IF es = <<>> THEN c
    ELSE LET p == Head(es)
             pushed == [c EXCEPT
                          !.evictList = <<[key |-> p.K, value |-> p.V]>> \o c.evictList,
                          !.items = [x \in (DOMAIN c.items) \cup {p.K} |->
                                       IF x = p.K THEN 1 ELSE c.items[x] + 1]]
         IN  RebuildFront(pushed, Tail(es))

\* The rebuild loop of Import: PushBack each entry, items[p.K] = el.
RECURSIVE Rebuild(_, _)
Rebuild(c, es) ==
    IF es = <<>> THEN c
    ELSE LET p == Head(es)
             pushed == [c EXCEPT
                          !.evictList = Append(c.evictList, [key |-> p.K, value |-> p.V]),
                          !.items = [x \in (DOMAIN c.items) \cup {p.K} |->
                                       IF x = p.K THEN Len(c.evictList) + 1
                                       ELSE c.items[x]]]
         IN  Rebuild(pushed, Tail(es))

\* Variant: the capacity is not enforced after the rebuild.
EnforceNothing(c) == c

\* for c.evictList.Len() > c.size { c.removeOldest() }
RECURSIVE Enforce(_)
Enforce(c) ==
    IF Len(c.evictList) > c.size THEN Enforce(removeOldest(c)) ELSE c

\* Variant: the declared size is taken over before it is validated.
ImportOpSizeFirst(c, b) ==
    LET dec == GobDecode(b)
    IN  IF dec.err THEN [cache |-> c, err |-> "decode"]
        ELSE IF dec.data.Size <= 1
             THEN [cache |-> [c EXCEPT !.size = dec.data.Size], err |-> "invalid"]
        ELSE LET reset == [c EXCEPT !.size = dec.data.Size,
                                    !.items = EmptyMap,
                                    !.evictList = <<>>]
             IN  [cache |-> Enforce(Rebuild(reset, dec.data.Entries)),
                  err |-> "nil"]

\* Variant: the cache is reset before the declared size is validated.
ImportOpResetFirst(c, b) ==
    LET dec == GobDecode(b)
    IN  IF dec.err THEN [cache |-> c, err |-> "decode"]
        ELSE IF dec.data.Size <= 1 THEN [cache |-> PurgeOp(c), err |-> "invalid"]
        ELSE LET reset == [c EXCEPT !.size = dec.data.Size,
                                    !.items = EmptyMap,
                                    !.evictList = <<>>]
             IN  [cache |-> Enforce(Rebuild(reset, dec.data.Entries)),
                  err |-> "nil"]

ImportOp(c, b) ==
    LET dec == GobDecode(b)
    IN  IF dec.err THEN [cache |-> c, err |-> "decode"]
        ELSE IF dec.data.Size <= 1 THEN [cache |-> c, err |-> "invalid"]
        ELSE LET reset == [c EXCEPT !.size = dec.data.Size,
                                    !.items = EmptyMap,
                                    !.evictList = <<>>]
             IN  [cache |-> Enforce(Rebuild(reset, dec.data.Entries)),
                  err |-> "nil"]

\* ------------------------------------------------------------- inputs
\* Entry sequences of hand-made payloads: every key sequence up to MaxEntries
\* (duplicates included), the values alternating along the sequence.
KeySeqs == UNION {[1..n -> AllKeys] : n \in 0..MaxEntries}
EntrySeqs ==
    {[i \in 1..Len(ks) |-> [K |-> ks[i], V |-> Vals[((i - 1) % Len(Vals)) + 1]]] :
        ks \in KeySeqs}
Payloads == {[Size |-> s, Entries |-> e] : s \in 0..MaxCap, e \in EntrySeqs}
\* Streams that end before the value does.
Truncated ==
    UNION {{SubSeq(GobEncode(d), 1, n) : n \in 0..(Len(GobEncode(d)) - 1)} :
             d \in {x \in Payloads : Len(x.Entries) = 1 /\ x.Size = MaxCap}}
\* The cache only compares keys for equality, so every payload is a renaming
\* of one whose keys first occur in the order of KeyNames; Import is given
\* these, and the truncated streams.
InNameOrder(es) ==
    \A i \in 1..Len(es) : \A n \in 2..Len(KeyNames) :
        es[i].K = KeyNames[n] => \E j \in 1..(i - 1) : es[j].K = KeyNames[n - 1]
ImportInputs ==
    {GobEncode(d) : d \in {x \in Payloads : InNameOrder(x.Entries)}} \cup Truncated

\* ------------------------------------------- persistence controller
\* Time is counted in ticks.  persistInterval as the caller configures it,
\* and the two intervals NewCachePersist derives from it.
PersistInterval == 2
PersistIntervalMultiplicate == 3
minInterval == PersistInterval
maxInterval == PersistIntervalMultiplicate * PersistInterval

\* A path of the directory: no file there, or a file and its bytes.  synced
\* and open are those of the handle os.CreateTemp returned.
NoFile == [exists |-> FALSE, data |-> <<>>, synced |-> FALSE, open |-> FALSE]
File(d, s, o) == [exists |-> TRUE, data |-> d, synced |-> s, open |-> o]

\* os.Rename(tmpPath, path) in the directory f: the temp file becomes the
\* target.
Rename(f) == [f EXCEPT !.target = f.tmp, !.tmp = NoFile]

\* A path is the sequence of its components, "/" first when it is absolute;
\* leading and trailing white space are components of their own.
Space == " "
Cwd == <<"/", "cwd">>

RECURSIVE TrimLeft(_)
TrimLeft(p) == IF p # <<>> /\ Head(p) = Space THEN TrimLeft(Tail(p)) ELSE p
RECURSIVE TrimRight(_)
TrimRight(p) ==
    IF p # <<>> /\ p[Len(p)] = Space THEN TrimRight(SubSeq(p, 1, Len(p) - 1)) ELSE p
\* strings.TrimSpace
TrimSpace(p) == TrimRight(TrimLeft(p))
\* filepath.Clean, filepath.Abs, filepath.Dir, filepath.Base
Clean(p) == SelectSeq(p, LAMBDA x : x # ".")
Abs(p) == IF Head(p) = "/" THEN p ELSE Cwd \o p
Dir(p) == SubSeq(p, 1, Len(p) - 1)
Base(p) == p[Len(p)]

\* The path the tests persist to: a file name in an existing, writable
\* directory.
ValidPath == <<"dir", "cache.gob">>

\* The directories of TestValidatePersistencePath below the working
\* directory: a writable one, a read-only one, and a file where a directory
\* is expected.  No entry is called "missing".
TestDirs == [d \in {"dir", "ro", "notdir"} |->
               CASE d = "dir" -> "dir" [] d = "ro" -> "rodir" [] d = "notdir" -> "file"]

\* The disk: the file at the valid path, the temp file of a flush, the
\* probe file of the path validation, and the directories.
Disk == [target |-> NoFile, tmp |-> NoFile, probe |-> NoFile, dirs |-> TestDirs]

\* os.Stat(p) on the disk f: "missing", "dir", "rodir" or "file".
Stat(f, p) ==
    IF p = Cwd THEN "dir"
    ELSE IF Dir(p) = Cwd
         THEN IF Base(p) \in DOMAIN f.dirs THEN f.dirs[Base(p)] ELSE "missing"
    ELSE IF p = Abs(ValidPath) /\ f.target.exists THEN "file"
    ELSE "missing"

\* The controller as NewCachePersist returns it: clean, the one-slot channel
\* empty, quit open.  lastFlush is kept as clock.since, the time since it.
NewCachePersist ==
    [ipDirty |-> 0, ch |-> 0, quit |-> FALSE, nil |-> FALSE, path |-> Abs(ValidPath)]

\* var persist *CachePersist: no controller.
NilPersist == [NewCachePersist EXCEPT !.nil = TRUE, !.path = <<>>]

\* ------------------------------------------------------- the cache lock
\* sync.RWMutex as the cache uses it.  Lock waits until nobody is inside,
\* RLock until no writer is inside.
Unlocked == [w |-> FALSE, r |-> 0]
CanLock(l) == ~l.w /\ l.r = 0
CanRLock(l) == ~l.w
\* Variant: Import does not take the lock.
LockNot(l) == l
Lock(l) == [l EXCEPT !.w = TRUE]
Unlock(l) == [l EXCEPT !.w = FALSE]
\* Variant: Snapshot does not take the read lock.
RLockNot(l) == l
RLock(l) == [l EXCEPT !.r = @ + 1]
RUnlock(l) == [l EXCEPT !.r = IF @ > 0 THEN @ - 1 ELSE 0]

\* A goroutine that is in no call of Import: r are the bytes of its reader,
\* data the decoded onDisk value, rest the entries the rebuild loop has not
\* pushed yet.
NotImporting ==
    [pc |-> "idle", r |-> <<>>, data |-> [Size |-> 0, Entries |-> <<>>],
     rest |-> <<>>]
\* A goroutine that is in no call of Snapshot or Export: size and entries are
\* Snapshot's results, e the list element its loop stands at.
NotReading == [pc |-> "idle", size |-> 0, entries |-> <<>>, e |-> 0]

\* No call of InitializeCache: the cache is built by NewLRUCache, the
\* controller by NewCachePersist.
NoOptions == [CacheSize |-> 0, CachePath |-> <<>>]

\* ------------------------------------------------------------- state
SetCache(c) ==
    /\ size' = c.size
    /\ evictList' = c.evictList
    /\ items' = c.items

\* What the caller saw of a call: the method, its key and value arguments, the
\* boolean and the other value it returned, and whether items held the key
\* when the call began.
Result(op, k, v, ok, out) ==
    [op |-> op, key |-> k, val |-> v, ok |-> ok, out |-> out,
     hit |-> k \in DOMAIN items]

NoAdds == [only |-> FALSE, keys |-> <<>>]

\* The keys added so far, most recently added first, each once.
Record(a, k) ==
    [a EXCEPT !.keys = <<k>> \o SelectSeq(a.keys, LAMBDA x : x # k)]

Init ==
    /\ \E n \in 2..MaxCap : /\ size = NewLRUCache(n).size
                            /\ evictList = NewLRUCache(n).evictList
                            /\ items = NewLRUCache(n).items
    /\ ret = Result("New", NoKey, Nil, TRUE, <<>>)
    /\ added = [only |-> TRUE, keys |-> <<>>]
    /\ buf = <<>>
    /\ want = [kind |-> "none"]
    /\ phase = "build"
    /\ persist = NewCachePersist
    /\ ctxDone = FALSE
    /\ run = [pc |-> "select", after |-> "loop", buf |-> <<>>, workers |-> 1]
    /\ fs = Disk
    /\ clock = [since |-> 0, timer |-> 0, sinceWrite |-> 0]
    /\ caller = "idle"
    /\ obs = [flushes |-> 0, marked |-> FALSE, stop |-> "none", late |-> FALSE]
    /\ lock = Unlocked
    /\ gor = [imp |-> NotImporting, snap |-> NotReading]
    /\ opt = NoOptions

Add(k, v) ==
    \E r \in {AddOp(Cache, k, v)} :
        /\ SetCache(r.cache)
        /\ ret' = Result("Add", k, v, r.evicted, <<>>)
        /\ added' = IF added.only THEN Record(added, k) ELSE added
        /\ UNCHANGED testVars
        /\ UNCHANGED <<lockVars, opt>>
        /\ UNCHANGED persistVars

Get(k) ==
    \E r \in {GetOp(Cache, k)} :
        /\ SetCache(r.cache)
        /\ ret' = Result("Get", k, r.value, r.ok, <<>>)
        /\ added' = NoAdds
        /\ UNCHANGED testVars
        /\ UNCHANGED <<lockVars, opt>>
        /\ UNCHANGED persistVars

\* Variant: the membership test is made with Get, which promotes.
ContainsByGet(k) ==
    /\ SetCache(GetOp(Cache, k).cache)
    /\ ret' = Result("Contains", k, Nil, GetOp(Cache, k).ok, <<>>)
    /\ added' = NoAdds
    /\ UNCHANGED testVars
    /\ UNCHANGED <<lockVars, opt>>
    /\ UNCHANGED persistVars

Contains(k) ==
    /\ ret' = Result("Contains", k, Nil, ContainsOp(Cache, k), <<>>)
    /\ added' = NoAdds
    /\ UNCHANGED <<cacheVars, testVars>>
    /\ UNCHANGED <<lockVars, opt>>
    /\ UNCHANGED persistVars

Remove(k) ==
    \E r \in {RemoveOp(Cache, k)} :
        /\ SetCache(r.cache)
        /\ ret' = Result("Remove", k, Nil, r.ok, <<>>)
        /\ added' = NoAdds
        /\ UNCHANGED testVars
        /\ UNCHANGED <<lockVars, opt>>
        /\ UNCHANGED persistVars

Keys ==
    /\ ret' = Result("Keys", NoKey, Nil, TRUE, KeysOp(Cache))
    /\ added' = NoAdds
    /\ UNCHANGED <<cacheVars, testVars>>
    /\ UNCHANGED <<lockVars, opt>>
    /\ UNCHANGED persistVars

Length ==
    /\ ret' = Result("Length", NoKey, Nil, TRUE, LengthOp(Cache))
    /\ added' = NoAdds
    /\ UNCHANGED <<cacheVars, testVars>>
    /\ UNCHANGED <<lockVars, opt>>
    /\ UNCHANGED persistVars

Purge ==
    /\ SetCache(PurgeOp(Cache))
    /\ ret' = Result("Purge", NoKey, Nil, TRUE, <<>>)
    /\ added' = NoAdds
    /\ UNCHANGED testVars
    /\ UNCHANGED <<lockVars, opt>>
    /\ UNCHANGED persistVars

Snapshot ==
    /\ ret' = Result("Snapshot", NoKey, Nil, TRUE, SnapshotOp(Cache))
    /\ added' = NoAdds
    /\ UNCHANGED <<cacheVars, testVars>>
    /\ UNCHANGED <<lockVars, opt>>
    /\ UNCHANGED persistVars

Export ==
    /\ ret' = Result("Export", NoKey, Nil, TRUE, ExportOp(Cache))
    /\ added' = NoAdds
    /\ UNCHANGED <<cacheVars, testVars>>
    /\ UNCHANGED <<lockVars, opt>>
    /\ UNCHANGED persistVars

Import(b) ==
    \E r \in {ImportOp(Cache, b)} :
        /\ SetCache(r.cache)
        /\ ret' = Result("Import", NoKey, Nil, r.err = "nil", r.err)
        /\ added' = NoAdds
        /\ UNCHANGED testVars
        /\ UNCHANGED <<lockVars, opt>>
        /\ UNCHANGED persistVars

Next ==
    \/ \E k \in AllKeys, v \in Values : Add(k, v)
    \/ \E k \in AllKeys : Get(k)
    \/ \E k \in AllKeys : Contains(k)
    \/ \E k \in AllKeys : Remove(k)
    \/ Keys
    \/ Length
    \/ Purge
    \/ Snapshot
    \/ Export
    \/ \E b \in ImportInputs : Import(b)

Spec == Init /\ [][Next]_vars

\* The same calls on a cache built with the largest capacity.
InitLargest == Init /\ size = MaxCap

SpecLargest == InitLargest /\ [][Next]_vars

\* Only Add is ever called.
NextAdd == \E k \in AllKeys, v \in Values : Add(k, v)

SpecAdd == Init /\ [][NextAdd]_vars

\* ------------------------------------------------ export / import tests
\* The caller exports the cache into its buffer and remembers what the cache
\* held (lru_test.go: wantOrder := cache.Keys(); cache.Export(&buf)).
ExportToBuf ==
    /\ phase = "build"
    /\ buf' = ExportOp(Cache)
    /\ want' = [kind |-> "snapshot", snap |-> SnapshotOp(Cache)]
    /\ phase' = "exported"
    /\ ret' = Result("Export", NoKey, Nil, TRUE, <<>>)
    /\ added' = NoAdds
    /\ UNCHANGED cacheVars
    /\ UNCHANGED <<lockVars, opt>>
    /\ UNCHANGED persistVars

\* cache.Purge() between Export and Import.
PurgeExported ==
    /\ phase = "exported"
    /\ SetCache(PurgeOp(Cache))
    /\ phase' = "purged"
    /\ ret' = Result("Purge", NoKey, Nil, TRUE, <<>>)
    /\ UNCHANGED <<added, buf, want>>
    /\ UNCHANGED <<lockVars, opt>>
    /\ UNCHANGED persistVars

\* The caller turns to another cache, built with another capacity
\* (cache2, _ := NewLRUCache(n)).
OtherCache(n) ==
    /\ phase = "exported"
    /\ n # size
    /\ SetCache(NewLRUCache(n))
    /\ phase' = "other"
    /\ ret' = Result("New", NoKey, Nil, TRUE, <<>>)
    /\ UNCHANGED <<added, buf, want>>
    /\ UNCHANGED <<lockVars, opt>>
    /\ UNCHANGED persistVars

\* The caller encodes a hand-made onDisk value into its buffer
\* (gob.NewEncoder(&buf).Encode(&payload)).
Craft(d) ==
    /\ phase = "build"
    /\ buf' = GobEncode(d)
    /\ want' = [kind |-> "payload", data |-> d]
    /\ phase' = "crafted"
    /\ UNCHANGED <<cacheVars, ret, added>>
    /\ UNCHANGED <<lockVars, opt>>
    /\ UNCHANGED persistVars

\* The caller fills its buffer with bytes that are no gob stream.
CraftBroken(b) ==
    /\ phase = "build"
    /\ buf' = b
    /\ want' = [kind |-> "broken"]
    /\ phase' = "crafted"
    /\ UNCHANGED <<cacheVars, ret, added>>
    /\ UNCHANGED <<lockVars, opt>>
    /\ UNCHANGED persistVars

\* cache.Import(&buf)
ImportFromBuf ==
    /\ phase \in {"purged", "other", "crafted"}
    /\ \E r \in {ImportOp(Cache, buf)} :
           /\ SetCache(r.cache)
           /\ ret' = Result("Import", NoKey, Nil, r.err = "nil", r.err)
    /\ buf' = <<>>
    /\ phase' = CASE phase = "purged" -> "reimported"
                  [] phase = "other" -> "moved"
                  [] phase = "crafted" -> "imported"
    /\ UNCHANGED <<added, want>>
    /\ UNCHANGED <<lockVars, opt>>
    /\ UNCHANGED persistVars

NextRoundTrip ==
    \/ phase = "build" /\ \E k \in AllKeys, v \in Values : Add(k, v)
    \/ phase = "build" /\ \E k \in AllKeys : Get(k)
    \/ phase = "build" /\ \E k \in AllKeys : Remove(k)
    \/ ExportToBuf
    \/ PurgeExported
    \/ \E n \in 2..MaxCap : OtherCache(n)
    \/ ImportFromBuf

SpecRoundTrip == Init /\ [][NextRoundTrip]_vars

NextImport ==
    \/ phase = "build" /\ \E k \in AllKeys, v \in Values : Add(k, v)
    \/ \E d \in Payloads : Craft(d)
    \/ \E b \in Truncated : CraftBroken(b)
    \/ ImportFromBuf

SpecImport == Init /\ [][NextImport]_vars

\* ------------------------------------------------------ snapshot test
\* Variant: the returned slice shares its storage with the list, so an
\* assignment to a Pair is an assignment to the entry.
PairStoreShared(c, pairs, i, p) ==
    [cache |-> [c EXCEPT !.evictList[i] = [key |-> p.Key, value |-> p.Value]],
     pairs |-> [pairs EXCEPT ![i] = p]]

\* pairs[i] = p in the caller of Snapshot.  Snapshot made the slice and
\* appended Pair values that hold copies of ent.key and ent.value, so the
\* assignment reaches the slice only.
PairStore(c, pairs, i, p) == [cache |-> c, pairs |-> [pairs EXCEPT ![i] = p]]

\* size, pairs := cache.Snapshot()
TakeSnapshot ==
    /\ phase = "build"
    /\ want' = [kind |-> "snapshot", snap |-> SnapshotOp(Cache)]
    /\ ret' = Result("Snapshot", NoKey, Nil, TRUE, SnapshotOp(Cache))
    /\ phase' = "snapped"
    /\ added' = NoAdds
    /\ UNCHANGED <<cacheVars, buf, persistVars, lockVars, opt>>

\* pairs[i].Key = "MUTATED", or pairs[i].Value = v.
MutatePair(i, p) ==
    /\ phase = "snapped"
    /\ i \in 1..Len(want.snap.entries)
    /\ \/ p = [want.snap.entries[i] EXCEPT !.Key = "MUTATED"]
       \/ \E v \in Values : /\ v # want.snap.entries[i].Value
                            /\ p = [want.snap.entries[i] EXCEPT !.Value = v]
    /\ \E r \in {PairStore(Cache, want.snap.entries, i, p)} :
           /\ SetCache(r.cache)
           /\ want' = [want EXCEPT !.snap.entries = r.pairs]
    /\ phase' = "mutated"
    /\ UNCHANGED <<ret, added, buf, persistVars, lockVars, opt>>

\* A cache is filled, a snapshot is taken, one of its pairs is overwritten,
\* and the cache is read again.
MutatedPairs ==
    {[Key |-> k, Value |-> v] : k \in AllKeys \cup {"MUTATED"}, v \in Values}

NextSnapshot ==
    \/ phase = "build" /\ \E k \in AllKeys, v \in Values : Add(k, v)
    \/ phase = "build" /\ \E k \in AllKeys : Get(k)
    \/ TakeSnapshot
    \/ \E i \in 1..MaxCap, p \in MutatedPairs : MutatePair(i, p)
    \/ phase = "mutated" /\ Keys
    \/ phase = "mutated" /\ \E k \in AllKeys \cup {"MUTATED"} : Get(k)

SpecSnapshot == Init /\ [][NextSnapshot]_vars

\* ------------------------------------------------- export to a file
\* Variant: the rename is left out; the temp file is removed on return.
ExportToFileAtomicNoRename(c, f) ==
    [fs |-> [f EXCEPT !.tmp = NoFile], err |-> "nil"]

\* ExportToFileAtomic with no failing file operation: CreateTemp in the
\* directory of path, Export into the temp file, Sync, Close, Rename over
\* path, and the deferred Remove of the temp path.
ExportToFileAtomicOp(c, f) ==
    LET created == [f EXCEPT !.tmp = File(<<>>, FALSE, TRUE)]
        written == [created EXCEPT !.tmp.data = ExportOp(c)]
        synced == [written EXCEPT !.tmp.synced = TRUE]
        closed == [synced EXCEPT !.tmp.open = FALSE]
        renamed == Rename(closed)
    IN  [fs |-> [renamed EXCEPT !.tmp = NoFile], err |-> "nil"]

\* ImportFromFile: os.Open(path), then Import of what the file holds.
ImportFromFileOp(c, f) ==
    IF ~f.target.exists THEN [cache |-> c, err |-> "notexist"]
    ELSE ImportOp(c, f.target.data)

\* os.WriteFile(path, []byte("corrupt-data"), 0o600): the path holds bytes
\* that are no snapshot.
SeedCorrupt(b) ==
    /\ phase = "build"
    /\ ~fs.target.exists
    /\ fs' = [fs EXCEPT !.target = File(b, FALSE, FALSE)]
    /\ UNCHANGED <<lockVars, opt>>
    /\ UNCHANGED <<cacheVars, ret, added, testVars, persist, ctxDone, run, clock,
                   caller, obs>>

\* cache.ExportToFileAtomic(path); the caller remembers what the cache held.
ExportToFileAtomic ==
    /\ phase = "build"
    /\ fs.target.exists
    /\ \E r \in {ExportToFileAtomicOp(Cache, fs)} :
           /\ fs' = r.fs
           /\ ret' = Result("ExportToFileAtomic", NoKey, Nil, r.err = "nil", r.err)
    /\ want' = [kind |-> "snapshot", snap |-> SnapshotOp(Cache)]
    /\ phase' = "exported"
    /\ added' = NoAdds
    /\ UNCHANGED <<lockVars, opt>>
    /\ UNCHANGED <<cacheVars, buf, persist, ctxDone, run, clock, caller, obs>>

\* cache2.ImportFromFile(path), into the cache the caller now holds.
ImportFromFile ==
    /\ phase \in {"exported", "purged", "other"}
    /\ \E r \in {ImportFromFileOp(Cache, fs)} :
           /\ SetCache(r.cache)
           /\ ret' = Result("ImportFromFile", NoKey, Nil, r.err = "nil", r.err)
    /\ phase' = "reloaded"
    /\ UNCHANGED <<lockVars, opt>>
    /\ UNCHANGED <<added, buf, want, persistVars>>

\* A cache is filled, the path is seeded with corrupt bytes, the cache is
\* exported over it, and the file is imported into the same cache, into the
\* cache purged, or into another cache with entries of its own.
NextFile ==
    \/ phase \in {"build", "other"} /\ \E k \in AllKeys, v \in Values : Add(k, v)
    \/ phase = "build" /\ \E k \in AllKeys : Get(k)
    \/ \E b \in Truncated : SeedCorrupt(b)
    \/ ExportToFileAtomic
    \/ PurgeExported
    \/ \E n \in 2..MaxCap : OtherCache(n)
    \/ ImportFromFile

SpecFile == Init /\ [][NextFile]_vars

\* ------------------------------------------ persistence: the callers
\* The keys and the value the request path stores (the address and its entry).
RequestKeys == {KeyNames[1], KeyNames[2]}
RequestValue == Vals[1]

\* cachedRequestIP on a hit: database.Get(ip) promoted the entry; the
\* MarkDirty call follows.
cachedRequestIP(k) ==
    /\ caller = "idle"
    /\ GetOp(Cache, k).ok
    /\ SetCache(GetOp(Cache, k).cache)
    /\ caller' = "mark"
    /\ UNCHANGED <<lockVars, opt>>
    /\ UNCHANGED <<ret, added, testVars, persist, ctxDone, run, fs, clock, obs>>

\* Variant: createNewIPEntry returns after database.Add without the
\* MarkDirty call.
createNewIPEntryNoMark(k) ==
    /\ caller = "idle"
    /\ ~GetOp(Cache, k).ok
    /\ SetCache(AddOp(Cache, k, RequestValue).cache)
    /\ UNCHANGED <<lockVars, opt>>
    /\ UNCHANGED <<ret, added, testVars, persistVars>>

\* createNewIPEntry after a miss: database.Add(ip, entry); the MarkDirty
\* call follows.
createNewIPEntry(k) ==
    /\ caller = "idle"
    /\ ~GetOp(Cache, k).ok
    /\ SetCache(AddOp(Cache, k, RequestValue).cache)
    /\ caller' = "mark"
    /\ UNCHANGED <<lockVars, opt>>
    /\ UNCHANGED <<ret, added, testVars, persist, ctxDone, run, fs, clock, obs>>

\* createNewIPEntry after a miss, getCountryCode returning an error: the
\* function returns the error before database.Add; the request is answered
\* without a further call on the cache or the controller.
createNewIPEntryFails(k) ==
    /\ caller = "idle"
    /\ ~GetOp(Cache, k).ok
    /\ SetCache(GetOp(Cache, k).cache)
    /\ ret' = Result("createNewIPEntry", k, Nil, FALSE, <<>>)
    /\ UNCHANGED <<lockVars, opt>>
    /\ UNCHANGED <<added, testVars, persistVars>>

\* The entry with the new time stamp that a monthly update stores.
RefreshedValue == Vals[2]

\* The entry of a hit is a month old and forceMonthlyUpdate is set:
\* createNewIPEntry is called for the key of the hit, which the Get has
\* moved to the front, after the MarkDirty call of the hit has returned;
\* database.Add(ip, entry) stores the new entry, and the MarkDirty call
\* follows.
forceMonthlyUpdate(k) ==
    /\ caller = "idle"
    /\ evictList # <<>>
    /\ evictList[1].key = k
    /\ evictList[1].value = RequestValue
    /\ SetCache(AddOp(Cache, k, RefreshedValue).cache)
    /\ caller' = "mark"
    /\ UNCHANGED <<lockVars, opt>>
    /\ UNCHANGED <<ret, added, testVars, persist, ctxDone, run, fs, clock, obs>>

\* A caller that calls MarkDirty without touching the cache.
Nudge ==
    /\ caller = "idle"
    /\ caller' = "mark"
    /\ UNCHANGED <<lockVars, opt>>
    /\ UNCHANGED <<cacheVars, ret, added, testVars, persist, ctxDone, run, fs,
                   clock, obs>>

\* The worker is inside flushIfDirty and has taken its snapshot (Export has
\* returned).
Snapshotted ==
    run.pc \in {"create", "write", "sync", "close", "rename", "clear", "stamp"}

\* MarkDirty, first half: atomic.StoreUint32(&p.ipDirty, 1).  The observer
\* notes a store that falls between the snapshot of a flush and its end.
\* On a nil controller the call returns at once.
MarkDirtyStore ==
    /\ caller = "mark"
    /\ IF persist.nil
       THEN /\ caller' = "idle"
            /\ UNCHANGED <<persist, obs>>
       ELSE /\ persist' = [persist EXCEPT !.ipDirty = 1]
            /\ caller' = "send"
            /\ obs' = [obs EXCEPT !.marked = TRUE, !.late = @ \/ Snapshotted]
    /\ UNCHANGED <<lockVars, opt>>
    /\ UNCHANGED <<cacheVars, ret, added, testVars, ctxDone, run, fs, clock>>

\* Variant: the nudge is sent without a default case, on a channel that
\* queues: every call adds a nudge.
SendQueues(c) == c + 1

\* Variant: the channel has no buffer, so the send falls to default.
SendDrops(c) == c

\* select { case p.ch <- struct{}{}: default: } on the channel of capacity 1.
Send(c) == IF c < 1 THEN c + 1 ELSE c

\* MarkDirty, second half: the non-blocking send; the call returns.
MarkDirtySend ==
    /\ caller = "send"
    /\ persist' = [persist EXCEPT !.ch = Send(persist.ch)]
    /\ caller' = "idle"
    /\ UNCHANGED <<lockVars, opt>>
    /\ UNCHANGED <<cacheVars, ret, added, testVars, ctxDone, run, fs, clock, obs>>

\* The worker is inside flushIfDirty, past the load of the flag.
InFlush ==
    run.pc \in {"export", "create", "write", "sync", "close", "rename",
                "clear", "stamp"}

\* The first shutdown signal: the observer notes whether the worker was in a
\* flush, else whether the controller was dirty, and counts flushes from here.
NoteShutdown ==
    IF obs.stop # "none" THEN obs
    ELSE [obs EXCEPT !.flushes = 0,
                     !.stop = IF InFlush THEN "flushing"
                              ELSE IF persist.ipDirty = 1 THEN "dirty"
                              ELSE "clean"]

\* Stop() on a controller whose quit channel is open: close(p.quit).
Stop ==
    /\ ~persist.nil
    /\ ~persist.quit
    /\ persist' = [persist EXCEPT !.quit = TRUE]
    /\ obs' = NoteShutdown
    /\ UNCHANGED <<lockVars, opt>>
    /\ UNCHANGED <<cacheVars, ret, added, testVars, ctxDone, run, fs, clock, caller>>

\* Stop() on a controller whose quit channel is closed already (Stop was
\* called before): close of a closed channel panics, and the panic, which
\* nothing recovers, ends the process.
StopClosed ==
    /\ ~persist.nil
    /\ persist.quit
    /\ phase' = "panic"
    /\ UNCHANGED <<lockVars, opt>>
    /\ UNCHANGED <<cacheVars, ret, added, buf, want, persistVars>>

\* The owner cancels the context given to Run.
Cancel ==
    /\ ~ctxDone
    /\ ctxDone' = TRUE
    /\ obs' = NoteShutdown
    /\ UNCHANGED <<lockVars, opt>>
    /\ UNCHANGED <<cacheVars, ret, added, testVars, persist, run, fs, clock, caller>>

\* ------------------------------------------- persistence: the worker
Shutdown == ctxDone \/ persist.quit

\* Variant: on shutdown Run returns without the final flushIfDirty.
CallFlushNotFinal(after) ==
    IF after = "return" THEN [run EXCEPT !.pc = "done"]
    ELSE [run EXCEPT !.pc = "flush", !.after = after]

\* flushIfDirty is called; after says what Run does when it returns.
CallFlush(after) == [run EXCEPT !.pc = "flush", !.after = after]

\* flushIfDirty returns: Run goes back to its select or returns.
Return(r) ==
    [r EXCEPT !.pc = IF r.after = "return" THEN "done" ELSE "select",
              !.buf = <<>>]

\* Run, outer select: case <-ctx.Done() and case <-p.quit.
RunShutdown ==
    /\ run.pc = "select"
    /\ Shutdown
    /\ run' = CallFlush("return")
    /\ UNCHANGED <<lockVars, opt>>
    /\ UNCHANGED <<cacheVars, ret, added, testVars, persist, ctxDone, fs, clock,
                   caller, obs>>

\* Variant: the nudge is received also after the final flush, as if Run
\* went back to its select instead of returning.
RunNudgeReturned ==
    /\ run.pc \in {"select", "done"}
    /\ persist.ch > 0
    /\ persist' = [persist EXCEPT !.ch = persist.ch - 1]
    /\ run' = [run EXCEPT !.pc = "drain"]
    /\ UNCHANGED <<lockVars, opt>>
    /\ UNCHANGED <<cacheVars, ret, added, testVars, ctxDone, fs, clock, caller, obs>>

\* Run, outer select: case <-p.ch.
RunNudge ==
    /\ run.pc = "select"
    /\ persist.ch > 0
    /\ persist' = [persist EXCEPT !.ch = persist.ch - 1]
    /\ run' = [run EXCEPT !.pc = "drain"]
    /\ UNCHANGED <<lockVars, opt>>
    /\ UNCHANGED <<cacheVars, ret, added, testVars, ctxDone, fs, clock, caller, obs>>

\* Variant: the worker goes on to the decision without looking for further
\* nudges.
RunDrainNot ==
    /\ run.pc = "drain"
    /\ run' = [run EXCEPT !.pc = "decide"]
    /\ UNCHANGED <<lockVars, opt>>
    /\ UNCHANGED <<cacheVars, ret, added, testVars, persist, ctxDone, fs, clock,
                   caller, obs>>

\* One turn of the drain loop: a further nudge is taken, or none is there.
RunDrain ==
    /\ run.pc = "drain"
    /\ IF persist.ch > 0
       THEN /\ persist' = [persist EXCEPT !.ch = persist.ch - 1]
            /\ UNCHANGED run
       ELSE /\ run' = [run EXCEPT !.pc = "decide"]
            /\ UNCHANGED persist
    /\ UNCHANGED <<lockVars, opt>>
    /\ UNCHANGED <<cacheVars, ret, added, testVars, ctxDone, fs, clock, caller, obs>>

\* Variant: nothing is left to wait for, whatever time has passed.
untilMinNone(since) == 0

untilMin(since) == minInterval - since
untilMax(since) == maxInterval - since

\* now, last, since, untilMin, untilMax; flush at once when the maximum
\* interval has passed or nothing of the minimum interval remains
\* (wait(d) with d <= 0), else start the timer of wait.
RunDecide ==
    /\ run.pc = "decide"
    /\ IF untilMax(clock.since) <= 0 \/ untilMin(clock.since) <= 0
       THEN /\ run' = CallFlush("loop")
            /\ UNCHANGED clock
       ELSE /\ run' = [run EXCEPT !.pc = "wait"]
            /\ clock' = [clock EXCEPT !.timer = untilMin(clock.since)]
    /\ UNCHANGED <<lockVars, opt>>
    /\ UNCHANGED <<cacheVars, ret, added, testVars, persist, ctxDone, fs, caller, obs>>

\* wait: case <-ctx.Done() and case <-p.quit: flush and return.
WaitShutdown ==
    /\ run.pc = "wait"
    /\ Shutdown
    /\ run' = CallFlush("return")
    /\ clock' = [clock EXCEPT !.timer = 0]
    /\ UNCHANGED <<lockVars, opt>>
    /\ UNCHANGED <<cacheVars, ret, added, testVars, persist, ctxDone, fs, caller, obs>>

\* wait: case <-t.C: the timer has fired.
WaitTimer ==
    /\ run.pc = "wait"
    /\ clock.timer = 0
    /\ run' = CallFlush("loop")
    /\ UNCHANGED <<lockVars, opt>>
    /\ UNCHANGED <<cacheVars, ret, added, testVars, persist, ctxDone, fs, clock,
                   caller, obs>>

\* Variant: flushIfDirty does not look at the flag and always writes.
FlushCheckAlways ==
    /\ run.pc = "flush"
    /\ run' = [run EXCEPT !.pc = "export"]
    /\ UNCHANGED <<lockVars, opt>>
    /\ UNCHANGED <<cacheVars, ret, added, testVars, persist, ctxDone, fs, clock,
                   caller, obs>>

\* flushIfDirty: the flag is loaded; clean returns at once.
FlushCheck ==
    /\ run.pc = "flush"
    /\ run' = IF persist.ipDirty = 0 THEN Return(run)
              ELSE [run EXCEPT !.pc = "export"]
    /\ UNCHANGED <<lockVars, opt>>
    /\ UNCHANGED <<cacheVars, ret, added, testVars, persist, ctxDone, fs, clock,
                   caller, obs>>

\* p.cache.Export(&buf)
FlushExport ==
    /\ run.pc = "export"
    /\ run' = [run EXCEPT !.pc = "create", !.buf = ExportOp(Cache)]
    /\ UNCHANGED <<lockVars, opt>>
    /\ UNCHANGED <<cacheVars, ret, added, testVars, persist, ctxDone, fs, clock,
                   caller, obs>>

\* os.CreateTemp(dir, "ipdb-*.tmp"), dir the directory of p.path
FlushCreateTemp ==
    /\ run.pc = "create"
    /\ fs' = [fs EXCEPT !.tmp = File(<<>>, FALSE, TRUE)]
    /\ run' = [run EXCEPT !.pc = "write"]
    /\ UNCHANGED <<lockVars, opt>>
    /\ UNCHANGED <<cacheVars, ret, added, testVars, persist, ctxDone, clock,
                   caller, obs>>

\* Variant: the bytes are written to the target path itself, as ExportToFile
\* does, and the temp file stays empty.
FlushWriteInPlace ==
    /\ run.pc = "write"
    /\ fs' = [fs EXCEPT !.target = File(run.buf, FALSE, TRUE)]
    /\ run' = [run EXCEPT !.pc = "sync"]
    /\ UNCHANGED <<lockVars, opt>>
    /\ UNCHANGED <<cacheVars, ret, added, testVars, persist, ctxDone, clock,
                   caller, obs>>

\* tmp.Write(buf.Bytes())
FlushWrite ==
    /\ run.pc = "write"
    /\ fs' = [fs EXCEPT !.tmp.data = run.buf]
    /\ run' = [run EXCEPT !.pc = "sync"]
    /\ UNCHANGED <<lockVars, opt>>
    /\ UNCHANGED <<cacheVars, ret, added, testVars, persist, ctxDone, clock,
                   caller, obs>>

\* tmp.Sync()
FlushSync ==
    /\ run.pc = "sync"
    /\ fs' = [fs EXCEPT !.tmp.synced = TRUE]
    /\ run' = [run EXCEPT !.pc = "close"]
    /\ UNCHANGED <<lockVars, opt>>
    /\ UNCHANGED <<cacheVars, ret, added, testVars, persist, ctxDone, clock,
                   caller, obs>>

\* tmp.Close()
FlushClose ==
    /\ run.pc = "close"
    /\ fs' = [fs EXCEPT !.tmp.open = FALSE]
    /\ run' = [run EXCEPT !.pc = "rename"]
    /\ UNCHANGED <<lockVars, opt>>
    /\ UNCHANGED <<cacheVars, ret, added, testVars, persist, ctxDone, clock,
                   caller, obs>>

FlushRename ==
    /\ run.pc = "rename"
    /\ fs' = Rename(fs)
    /\ run' = [run EXCEPT !.pc = "clear"]
    /\ clock' = [clock EXCEPT !.sinceWrite = 0]
    /\ obs' = [obs EXCEPT !.flushes = Min(obs.flushes + 1, 3)]
    /\ UNCHANGED <<lockVars, opt>>
    /\ UNCHANGED <<cacheVars, ret, added, testVars, persist, ctxDone, caller>>

\* atomic.StoreUint32(&p.ipDirty, 0)
FlushClear ==
    /\ run.pc = "clear"
    /\ persist' = [persist EXCEPT !.ipDirty = 0]
    /\ run' = [run EXCEPT !.pc = "stamp"]
    /\ UNCHANGED <<lockVars, opt>>
    /\ UNCHANGED <<cacheVars, ret, added, testVars, ctxDone, fs, clock, caller, obs>>

\* p.lastFlush.Store(time.Now().UnixNano()); flushIfDirty returns.
FlushStamp ==
    /\ run.pc = "stamp"
    /\ clock' = [clock EXCEPT !.since = 0]
    /\ run' = Return(run)
    /\ obs' = [obs EXCEPT !.late = FALSE]
    /\ UNCHANGED <<lockVars, opt>>
    /\ UNCHANGED <<cacheVars, ret, added, testVars, persist, ctxDone, fs, caller>>

\* Variant: the error is logged and the temp file is left where it is.
FlushFailsKeepsTemp ==
    /\ run.pc \in {"create", "write", "sync", "close", "rename"}
    /\ run' = Return(run)
    /\ obs' = [obs EXCEPT !.late = FALSE]
    /\ UNCHANGED <<lockVars, opt>>
    /\ UNCHANGED <<cacheVars, ret, added, testVars, persist, ctxDone, fs, clock,
                   caller>>

\* Variant: after the error is logged the function falls through to its
\* last statements: the flag is cleared and the time stored.
FlushFailsClears ==
    /\ run.pc \in {"create", "write", "sync", "close", "rename"}
    /\ fs' = [fs EXCEPT !.tmp = NoFile]
    /\ persist' = [persist EXCEPT !.ipDirty = 0]
    /\ clock' = [clock EXCEPT !.since = 0]
    /\ run' = Return(run)
    /\ obs' = [obs EXCEPT !.late = FALSE]
    /\ UNCHANGED <<lockVars, opt>>
    /\ UNCHANGED <<cacheVars, ret, added, testVars, ctxDone, caller>>

\* CreateTemp, Write, Sync, Close or Rename returns an error: the temp file,
\* if there is one, is closed and removed, the error is logged, and
\* flushIfDirty returns.
FlushFails ==
    /\ run.pc \in {"create", "write", "sync", "close", "rename"}
    /\ fs' = [fs EXCEPT !.tmp = NoFile]
    /\ run' = Return(run)
    /\ obs' = [obs EXCEPT !.late = FALSE]
    /\ UNCHANGED <<lockVars, opt>>
    /\ UNCHANGED <<cacheVars, ret, added, testVars, persist, ctxDone, clock,
                   caller>>

\* The worker is blocked: in the outer select with nothing to receive, in
\* wait with the timer running, or gone.
Blocked ==
    \/ run.pc = "done"
    \/ run.pc = "select" /\ persist.ch = 0 /\ ~Shutdown
    \/ run.pc = "wait" /\ clock.timer > 0 /\ ~Shutdown

\* One tick of time passes.  The steps of the worker take no time: time
\* passes only while the worker is blocked.
Tick ==
    /\ Blocked
    /\ clock' = [since |-> Min(clock.since + 1, maxInterval),
                 timer |-> IF clock.timer > 0 THEN clock.timer - 1 ELSE 0,
                 sinceWrite |-> Min(clock.sinceWrite + 1, maxInterval + 1)]
    /\ obs' = [obs EXCEPT !.marked = FALSE]
    /\ UNCHANGED <<lockVars, opt>>
    /\ UNCHANGED <<cacheVars, ret, added, testVars, persist, ctxDone, run, fs, caller>>

\* The worker as long as no shutdown is signalled.
Serve ==
    \/ RunNudge
    \/ RunDrain
    \/ RunDecide
    \/ WaitTimer
    \/ FlushCheck
    \/ FlushExport
    \/ FlushCreateTemp
    \/ FlushWrite
    \/ FlushSync
    \/ FlushClose
    \/ FlushRename
    \/ FlushClear
    \/ FlushStamp

Worker ==
    \/ Serve
    \/ RunShutdown
    \/ WaitShutdown

\* The controller at work: requests change the cache and mark it dirty, the
\* worker flushes, file operations may fail, time passes, and the owner
\* shuts down by Stop or by the context.
NextPersist ==
    \/ \E k \in RequestKeys : cachedRequestIP(k)
    \/ \E k \in RequestKeys : createNewIPEntry(k)
    \/ MarkDirtyStore
    \/ MarkDirtySend
    \/ Stop
    \/ Cancel
    \/ Worker
    \/ FlushFails
    \/ Tick

\* InitializeCache with CacheSize 2 and a valid path where no file is yet.
InitPersist == Init /\ size = 2

SpecPersist == InitPersist /\ [][NextPersist]_vars

\* MarkDirty calls, then shutdown: no call is begun once shutdown has been
\* signalled, and no file operation fails.
NextShutdown ==
    \/ ~Shutdown /\ Nudge
    \/ ~Shutdown /\ MarkDirtyStore
    \/ MarkDirtySend
    \/ Stop
    \/ Cancel
    \/ Worker
    \/ Tick

\* The Go scheduler runs a goroutine that can take a step, and time passes.
SpecShutdown ==
    InitPersist /\ [][NextShutdown]_vars /\ WF_vars(Worker) /\ WF_vars(Tick)

\* Requests and flushes with no failing file operation; every request calls
\* MarkDirty, shutdown is signalled between requests, and no request comes
\* after it.
NextFlush ==
    \/ ~Shutdown /\ \E k \in RequestKeys : cachedRequestIP(k)
    \/ ~Shutdown /\ \E k \in RequestKeys : createNewIPEntry(k)
    \/ MarkDirtyStore
    \/ MarkDirtySend
    \/ caller = "idle" /\ Stop
    \/ caller = "idle" /\ Cancel
    \/ Worker
    \/ Tick

SpecFlush == InitPersist /\ [][NextFlush]_vars

\* Bursts of MarkDirty calls: calls are made only while less than the
\* minimum interval has passed since the controller was built or since its
\* first flush, a call takes no time, and no file operation fails.
NextBurst ==
    \/ (clock.since < minInterval /\ obs.flushes <= 1) /\ Nudge
    \/ MarkDirtyStore
    \/ MarkDirtySend
    \/ Serve
    \/ caller = "idle" /\ Tick

SpecBurst == InitPersist /\ [][NextBurst]_vars

\* MarkDirty called without pause: time moves on only when a call was made
\* since the last tick, so two calls are never a minimum interval apart.
\* No file operation fails and no shutdown is signalled.
NextContinuous ==
    \/ Nudge
    \/ MarkDirtyStore
    \/ MarkDirtySend
    \/ Serve
    \/ obs.marked /\ Tick

SpecContinuous == InitPersist /\ [][NextContinuous]_vars

\* Shutdown under load: MarkDirty is called at any time, also after the
\* shutdown signal, and file operations may fail.
NextTerminate ==
    \/ Nudge
    \/ MarkDirtyStore
    \/ MarkDirtySend
    \/ Stop
    \/ Cancel
    \/ Worker
    \/ FlushFails
    \/ Tick

\* The Go scheduler runs the worker when it can take a step, whatever the
\* outcome of its file operation; a select with several ready cases picks
\* one of them at random, so the shutdown case of the outer select is taken
\* at last if it is ready again and again; and time passes.
SpecTerminate ==
    /\ InitPersist
    /\ [][NextTerminate]_vars
    /\ WF_vars(Worker \/ FlushFails)
    /\ SF_vars(RunShutdown)
    /\ WF_vars(Tick)

\* The request path: each request looks its address up in the cache; on a
\* miss the country is resolved, which may fail; on a hit the entry may be
\* due for its monthly update.  The worker flushes meanwhile; no file
\* operation fails and no shutdown is signalled.
NextRequest ==
    \/ \E k \in RequestKeys : cachedRequestIP(k)
    \/ \E k \in RequestKeys : createNewIPEntry(k)
    \/ \E k \in RequestKeys : createNewIPEntryFails(k)
    \/ \E k \in RequestKeys : forceMonthlyUpdate(k)
    \/ MarkDirtyStore
    \/ MarkDirtySend
    \/ Serve
    \/ Tick

SpecRequest == InitPersist /\ [][NextRequest]_vars

\* ------------------------------------- Import and Snapshot, step by step
\* The methods above hold the lock from their first statement to their
\* last, so each is one step that needs the lock to be free.  Import and
\* Snapshot are followed statement by statement here, with the lock.
InImport == gor.imp.pc \in {"reset", "rebuild"}

\* Import up to c.lock.Lock(): decode, and the check of the declared size.
ImportDecode(b) ==
    /\ gor.imp.pc = "idle"
    /\ \E dec \in {GobDecode(b)} :
          IF dec.err \/ dec.data.Size <= 1
          THEN /\ ret' = Result("Import", NoKey, Nil, FALSE,
                                IF dec.err THEN "decode" ELSE "invalid")
               /\ UNCHANGED gor
          ELSE /\ gor' = [gor EXCEPT !.imp = [pc |-> "lock", r |-> b,
                                              data |-> dec.data, rest |-> <<>>]]
               /\ UNCHANGED ret
    /\ UNCHANGED <<cacheVars, added, testVars, persistVars, lock, opt>>

\* c.lock.Lock()
ImportLock ==
    /\ gor.imp.pc = "lock"
    /\ CanLock(lock)
    /\ lock' = Lock(lock)
    /\ gor' = [gor EXCEPT !.imp.pc = "reset"]
    /\ UNCHANGED <<cacheVars, ret, added, testVars, persistVars, opt>>

\* c.size = data.Size; c.items = make(...); c.evictList.Init()
ImportReset ==
    /\ gor.imp.pc = "reset"
    /\ size' = gor.imp.data.Size
    /\ items' = EmptyMap
    /\ evictList' = <<>>
    /\ gor' = [gor EXCEPT !.imp.pc = "rebuild", !.imp.rest = gor.imp.data.Entries]
    /\ added' = NoAdds
    /\ UNCHANGED <<ret, testVars, persistVars, lock, opt>>

\* One round of the rebuild loop.
ImportPushBack ==
    /\ gor.imp.pc = "rebuild"
    /\ gor.imp.rest # <<>>
    /\ SetCache(Rebuild(Cache, <<Head(gor.imp.rest)>>))
    /\ gor' = [gor EXCEPT !.imp.rest = Tail(@)]
    /\ UNCHANGED <<ret, added, testVars, persistVars, lock, opt>>

\* One round of the loop that enforces the capacity.
ImportRemoveOldest ==
    /\ gor.imp.pc = "rebuild"
    /\ gor.imp.rest = <<>>
    /\ Len(evictList) > size
    /\ SetCache(removeOldest(Cache))
    /\ UNCHANGED <<ret, added, testVars, persistVars, lock, gor, opt>>

\* return nil, and the deferred c.lock.Unlock().
ImportUnlock ==
    /\ gor.imp.pc = "rebuild"
    /\ gor.imp.rest = <<>>
    /\ Len(evictList) <= size
    /\ lock' = Unlock(lock)
    /\ gor' = [gor EXCEPT !.imp = NotImporting]
    /\ ret' = Result("Import", NoKey, Nil, TRUE, "nil")
    /\ UNCHANGED <<cacheVars, added, testVars, persistVars, opt>>

\* Snapshot: c.lock.RLock(); size = c.size; e := c.evictList.Front()
SnapshotRLock ==
    /\ gor.snap.pc = "idle"
    /\ CanRLock(lock)
    /\ lock' = RLock(lock)
    /\ gor' = [gor EXCEPT !.snap = [pc |-> "read", size |-> size,
                                    entries |-> <<>>, e |-> 1]]
    /\ UNCHANGED <<cacheVars, ret, added, testVars, persistVars, opt>>

\* One round of Snapshot's loop: append the Pair of e, e = e.Next().
SnapshotNext ==
    /\ gor.snap.pc = "read"
    /\ gor.snap.e <= Len(evictList)
    /\ gor' = [gor EXCEPT
                 !.snap.entries = Append(@, [Key |-> evictList[gor.snap.e].key,
                                             Value |-> evictList[gor.snap.e].value]),
                 !.snap.e = @ + 1]
    /\ UNCHANGED <<cacheVars, ret, added, testVars, persistVars, lock, opt>>

\* e == nil: Snapshot returns to its caller, the deferred c.lock.RUnlock()
\* runs.
SnapshotRUnlock ==
    /\ gor.snap.pc = "read"
    /\ gor.snap.e > Len(evictList)
    /\ lock' = RUnlock(lock)
    /\ gor' = [gor EXCEPT !.snap = NotReading]
    /\ ret' = Result("Snapshot", NoKey, Nil, TRUE,
                     [size |-> gor.snap.size, entries |-> gor.snap.entries])
    /\ UNCHANGED <<cacheVars, added, testVars, persistVars, opt>>

\* e == nil, and the caller of Snapshot is Export: after the RUnlock the
\* pairs are copied into an onDisk value and encoded.  The encoding reads
\* nothing but what Snapshot returned, so it is taken with the RUnlock.
ExportEncode ==
    /\ gor.snap.pc = "read"
    /\ gor.snap.e > Len(evictList)
    /\ lock' = RUnlock(lock)
    /\ gor' = [gor EXCEPT !.snap = NotReading]
    /\ ret' = Result("Export", NoKey, Nil, TRUE,
                     GobEncode([Size |-> gor.snap.size,
                                Entries |-> [i \in 1..Len(gor.snap.entries) |->
                                               [K |-> gor.snap.entries[i].Key,
                                                V |-> gor.snap.entries[i].Value]]]))
    /\ UNCHANGED <<cacheVars, added, testVars, persistVars, opt>>

\* What the concurrent Import is given: payloads with no entry or with
\* MaxEntries entries, the keys in the order of KeyNames over and over,
\* declaring a size of 1, of 2 or of MaxCap, and a stream that ends early.
RaceInputs ==
    {GobEncode(d) :
        d \in {x \in Payloads :
                 /\ Len(x.Entries) \in {0, MaxEntries}
                 /\ x.Size \in {1, 2, MaxCap}
                 /\ \A i \in 1..Len(x.Entries) :
                        x.Entries[i].K = KeyNames[((i - 1) % Len(KeyNames)) + 1]}}
        \cup {<<MaxCap>>}

Importer ==
    \/ \E b \in RaceInputs : ImportDecode(b)
    \/ ImportLock
    \/ ImportReset
    \/ ImportPushBack
    \/ ImportRemoveOldest
    \/ ImportUnlock

Exporter ==
    \/ SnapshotRLock
    \/ SnapshotNext
    \/ SnapshotRUnlock
    \/ ExportEncode

\* Methods that take the write lock, and methods that take the read lock.
Writers ==
    /\ CanLock(lock)
    /\ \/ \E k \in AllKeys, v \in Values : Add(k, v)
       \/ \E k \in AllKeys : Get(k)
       \/ \E k \in AllKeys : Remove(k)
       \/ Purge

Readers ==
    /\ CanRLock(lock)
    /\ \/ \E k \in AllKeys : Contains(k)
       \/ Keys
       \/ Length

\* Callers of the read methods and of Get, an Export and an Import at once.
NextImportRace ==
    \/ Importer
    \/ Exporter
    \/ Readers
    \/ CanLock(lock) /\ \E k \in AllKeys : Get(k)

SpecImportRace == Init /\ [][NextImportRace]_vars

\* Callers of Add, Get, Remove and Purge, and an Export at once.
NextExportRace ==
    \/ Exporter
    \/ Writers

SpecExportRace == Init /\ [][NextExportRace]_vars

\* ------------------------------------------------------ InitializeCache
\* No cache: the nil *LRUCache.
NoCache == [size |-> 0, evictList |-> <<>>, items |-> EmptyMap]

\* Variant: a cache of one entry is accepted.
NewLRUCacheOpOne(n) ==
    IF n <= 0 THEN [cache |-> NoCache, err |-> "size"]
    ELSE [cache |-> NewLRUCache(n), err |-> "nil"]

\* NewLRUCache with its error result.
NewLRUCacheOp(n) ==
    IF n <= 1 THEN [cache |-> NoCache, err |-> "size"]
    ELSE [cache |-> NewLRUCache(n), err |-> "nil"]

\* os.CreateTemp(parent, "geoblock-probe-*"), and f.Close() with
\* os.Remove(name), on the disk f.
CreateProbe(f) == [f EXCEPT !.probe = File(<<>>, FALSE, TRUE)]
\* Variant: the probe file is closed and left behind.
RemoveProbeNot(f) == [f EXCEPT !.probe.open = FALSE]
RemoveProbe(f) == [f EXCEPT !.probe = NoFile]

\* ValidatePersistencePath(raw) on the disk f, which holds no symbolic
\* link: the path and the error it returns, and the disk it leaves.
ValidatePersistencePathOp(raw, f) ==
    LET trimmed == TrimSpace(raw)
        abs == Abs(Clean(trimmed))
        parent == Dir(abs)
        fails(e) == [path |-> <<>>, err |-> e, fs |-> f]
    IN  IF trimmed = <<>> THEN [path |-> <<>>, err |-> "nil", fs |-> f]
        ELSE IF Stat(f, parent) = "file" THEN fails("eval symlinks")
        ELSE IF Stat(f, abs) = "missing" /\ Stat(f, parent) = "missing"
             THEN fails("resolve parent symlinks")
        ELSE IF Stat(f, parent) = "missing" THEN fails("parent folder does not exist")
        ELSE IF Stat(f, parent) \notin {"dir", "rodir"}
             THEN fails("parent path is not a folder")
        ELSE IF Stat(f, parent) = "rodir" THEN fails("parent folder not writable")
        ELSE [path |-> abs, err |-> "nil", fs |-> RemoveProbe(CreateProbe(f))]

\* The disk as os.Open(path) sees it: the file of the model is the one at
\* the valid path, no other path names a file.
AtPath(f, path) == IF path = Abs(ValidPath) THEN f ELSE [f EXCEPT !.target = NoFile]

\* Variant: the snapshot is not imported.
WarmLoadNot(c, f, path) == [cache |-> c, log |-> <<>>]

\* The warm load of InitializeCache: ImportFromFile(path); an error other
\* than file-not-exist is logged, no error is returned.
WarmLoad(c, f, path) ==
    LET r == ImportFromFileOp(c, AtPath(f, path))
    IN  [cache |-> r.cache,
         log |-> IF r.err \in {"nil", "notexist"} THEN <<>>
                 ELSE <<"failed to warm-load">>]

\* Variant: the worker is started a second time for the same controller.
GoRunTwice(n) == n + 2

\* go persist.Run(ctx): one more goroutine runs Run on the controller.
GoRun(n) == n + 1

\* InitializeCache(ctx, opt) on the disk f: the cache, the controller and
\* the error it returns, how many workers it started (go persist.Run),
\* what it logged, and the disk it leaves.
InitializeCacheOp(o, f) ==
    IF o.CacheSize <= 1
    THEN [cache |-> NoCache, persist |-> NilPersist, err |-> "size",
          started |-> 0, log |-> <<>>, fs |-> f]
    ELSE IF NewLRUCacheOp(o.CacheSize).err # "nil"
    THEN [cache |-> NoCache, persist |-> NilPersist, err |-> "create lru cache",
          started |-> 0, log |-> <<>>, fs |-> f]
    ELSE LET c == NewLRUCacheOp(o.CacheSize).cache
             v == ValidatePersistencePathOp(o.CachePath, f)
             w == WarmLoad(c, v.fs, v.path)
         IN  IF o.CachePath = <<>>
             THEN [cache |-> c, persist |-> NilPersist, err |-> "nil",
                   started |-> 0, fs |-> f,
                   log |-> <<"persistence disabled (no path configured)">>]
             ELSE IF v.err # "nil"
             THEN [cache |-> c, persist |-> NilPersist, err |-> "nil",
                   started |-> 0, fs |-> v.fs,
                   log |-> <<"persistence disabled (path invalid)">>]
             ELSE [cache |-> w.cache,
                   persist |-> [NewCachePersist EXCEPT !.path = v.path],
                   err |-> "nil", started |-> GoRun(0), fs |-> v.fs,
                   log |-> w.log \o <<"persistence enabled">>]

\* What CachePath is set to: nothing, white space, and a file name in each
\* of the four directories, relative, absolute, with white space around it,
\* and with a "." in it.
RawPaths ==
    {<<>>, <<Space>>, <<Space, Space>>, <<"dir", ".", "cache.gob">>}
      \cup UNION {{<<d, "cache.gob">>, <<"/", "cwd", d, "cache.gob">>,
                   <<Space, d, "cache.gob", Space>>} :
                    d \in {"dir", "ro", "notdir", "missing"}}

\* What the file at the valid path holds before the start: snapshots that
\* Export wrote (at least one entry, no more entries than the capacity,
\* every key once), a stream that ends early, and a payload that declares
\* the size 1.
Snapshots ==
    {x \in Payloads : /\ x.Size >= 2
                      /\ Len(x.Entries) \in 1..x.Size
                      /\ InNameOrder(x.Entries)
                      /\ \A i, j \in 1..Len(x.Entries) :
                            x.Entries[i].K = x.Entries[j].K => i = j}
BootFiles ==
    {NoFile, File(<<MaxCap>>, TRUE, FALSE),
     File(GobEncode([Size |-> 1, Entries |-> <<>>]), TRUE, FALSE)}
      \cup {File(GobEncode(d), TRUE, FALSE) : d \in Snapshots}

\* Before the start: no cache, no controller, no worker.
InitBoot ==
    /\ size = NoCache.size
    /\ evictList = NoCache.evictList
    /\ items = NoCache.items
    /\ ret = Result("none", NoKey, Nil, TRUE, <<>>)
    /\ added = NoAdds
    /\ buf = <<>>
    /\ want = [kind |-> "none"]
    /\ phase = "boot"
    /\ persist = NilPersist
    /\ ctxDone = FALSE
    /\ run = [pc |-> "none", after |-> "loop", buf |-> <<>>, workers |-> 0]
    /\ \E t \in BootFiles : fs = [Disk EXCEPT !.target = t]
    /\ clock = [since |-> 0, timer |-> 0, sinceWrite |-> 0]
    /\ caller = "idle"
    /\ obs = [flushes |-> 0, marked |-> FALSE, stop |-> "none", late |-> FALSE]
    /\ lock = Unlocked
    /\ gor = [imp |-> NotImporting, snap |-> NotReading]
    /\ \E n \in 0..MaxCap, raw \in RawPaths : opt = [CacheSize |-> n, CachePath |-> raw]

\* cache, persist, err := InitializeCache(ctx, opt)
InitializeCache ==
    /\ phase = "boot"
    /\ \E r \in {InitializeCacheOp(opt, fs)} :
           /\ SetCache(r.cache)
           /\ persist' = r.persist
           /\ run' = [run EXCEPT !.pc = IF r.started > 0 THEN "select" ELSE "none",
                                 !.workers = r.started]
           /\ fs' = r.fs
           /\ ret' = Result("InitializeCache", NoKey, Nil, r.err = "nil",
                            [err |-> r.err, log |-> r.log])
    /\ phase' = "running"
    /\ UNCHANGED <<added, buf, want, ctxDone, clock, caller, obs, lockVars, opt>>

\* cache, err := lru.NewLRUCache(opt.CacheSize)
NewCache ==
    /\ phase = "boot"
    /\ \E r \in {NewLRUCacheOp(opt.CacheSize)} :
           /\ SetCache(r.cache)
           /\ ret' = Result("NewLRUCache", NoKey, Nil, r.err = "nil",
                            [err |-> r.err, log |-> <<>>])
    /\ phase' = "running"
    /\ UNCHANGED <<added, buf, want, persistVars, lockVars, opt>>

\* path, err := ValidatePersistencePath(opt.CachePath)
ValidatePath ==
    /\ phase = "boot"
    /\ \E r \in {ValidatePersistencePathOp(opt.CachePath, fs)} :
           /\ fs' = r.fs
           /\ ret' = Result("ValidatePersistencePath", NoKey, Nil, r.err = "nil",
                            [err |-> r.err, path |-> r.path])
    /\ phase' = "validated"
    /\ UNCHANGED <<cacheVars, added, buf, want, persist, ctxDone, run, clock,
                   caller, obs, lockVars, opt>>

\* One of the three calls, with any options, on any disk.
NextBoot ==
    \/ InitializeCache
    \/ NewCache
    \/ ValidatePath

SpecBoot == InitBoot /\ [][NextBoot]_vars

\* The life of one controller, from InitializeCache to the end of the
\* process: CacheSize 2; no path, the valid path with no file there, or a
\* path in the read-only directory.
InitLife ==
    /\ InitBoot
    /\ opt.CacheSize = 2
    /\ opt.CachePath \in {<<>>, ValidPath, <<"ro", "cache.gob">>}
    /\ fs.target = NoFile

\* After InitializeCache the owner and the request path call MarkDirty and
\* Stop in any order and any number of times and the context may be
\* cancelled, while the worker runs, file operations may fail and time
\* passes; nothing happens in a process that has panicked.
NextLife ==
    \/ InitializeCache
    \/ phase = "running" /\ Nudge
    \/ phase = "running" /\ MarkDirtyStore
    \/ phase = "running" /\ MarkDirtySend
    \/ phase = "running" /\ Stop
    \/ phase = "running" /\ StopClosed
    \/ phase = "running" /\ Cancel
    \/ phase = "running" /\ Worker
    \/ phase = "running" /\ FlushFails
    \/ phase = "running" /\ Tick

SpecLife == InitLife /\ [][NextLife]_vars

\* InitializeCache with a valid path, and calls of the cache after it.
InitWarm ==
    /\ InitBoot
    /\ opt.CacheSize >= 2
    /\ opt.CachePath = ValidPath

NextWarm ==
    \/ InitializeCache
    \/ phase = "running" /\ \E k \in AllKeys, v \in Values : Add(k, v)
    \/ phase = "running" /\ \E k \in AllKeys : Get(k)
    \/ phase = "running" /\ \E k \in AllKeys : Remove(k)

SpecWarm == InitWarm /\ [][NextWarm]_vars

\* --------------------------------------------------- what callers observe
\* The bytes are one whole encoded snapshot: they decode, and nothing is
\* missing or left over.
Complete(d) ==
    /\ ~GobDecode(d).err
    /\ GobEncode(GobDecode(d).data) = d

CacheNext == [size |-> size', evictList |-> evictList', items |-> items']

\* The flags Add returns for the keys ks, added to c in order.
RECURSIVE Evictions(_, _)
Evictions(c, ks) ==
    IF ks = <<>> THEN <<>>
    ELSE <<AddOp(c, Head(ks), Vals[1]).evicted>>
             \o Evictions(AddOp(c, Head(ks), Vals[1]).cache, Tail(ks))

\* What os.Stat would say of the directory that the raw path puts its file
\* in, read off the path as written.
ParentKind(raw, f) ==
    LET t == SelectSeq(raw, LAMBDA x : x \notin {Space, "."})
        d == t[Len(t) - 1]
    IN  IF d \in DOMAIN f.dirs THEN f.dirs[d] ELSE "missing"

\* s without every occurrence of k.
Without(s, k) == SelectSeq(s, LAMBDA x : x # k)

KeySet(c) == {c.evictList[i].key : i \in 1..Len(c.evictList)}

\* The value stored in the entry the index holds for k.
ValueOf(c, k) == c.evictList[c.items[k]].value

\* ----------------------------------------- the bounded recency list
\* The contract of the Cache interface as a list of entries, most recently
\* used first: Add puts the entry at the front, in place of an older entry
\* of the key, and keeps the first n; a Get that finds the key moves its
\* entry to the front; Remove drops the entry of the key; Purge drops all.
RefDrop(s, k) == SelectSeq(s, LAMBDA e : e.key # k)

RefTake(s, n) == SubSeq(s, 1, Min(Len(s), n))

RefHas(s, k) == \E i \in 1..Len(s) : s[i].key = k

RefValue(s, k) == s[CHOOSE i \in 1..Len(s) : s[i].key = k].value

RefKeys(s) == [i \in 1..Len(s) |-> s[i].key]

RefAdd(s, k, v, n) == RefTake(<<[key |-> k, value |-> v]>> \o RefDrop(s, k), n)

RefGet(s, k) ==
    IF RefHas(s, k)
    THEN <<[key |-> k, value |-> RefValue(s, k)]>> \o RefDrop(s, k)
    ELSE s

\* The reference list the caller keeps beside the cache; empty at the start.
RefPairs == IF want.kind = "ref" THEN want.pairs ELSE <<>>

RefSet(s) == [kind |-> "ref", pairs |-> s]

\* The four calls, each made on the cache and noted in the reference list.
AddRefined(k, v) ==
    \E r \in {AddOp(Cache, k, v)} :
        /\ SetCache(r.cache)
        /\ ret' = Result("Add", k, v, r.evicted, <<>>)
        /\ want' = RefSet(RefAdd(RefPairs, k, v, size))
        /\ UNCHANGED <<added, buf, phase, persistVars, lockVars, opt>>

GetRefined(k) ==
    \E r \in {GetOp(Cache, k)} :
        /\ SetCache(r.cache)
        /\ ret' = Result("Get", k, r.value, r.ok, <<>>)
        /\ want' = RefSet(RefGet(RefPairs, k))
        /\ UNCHANGED <<added, buf, phase, persistVars, lockVars, opt>>

RemoveRefined(k) ==
    \E r \in {RemoveOp(Cache, k)} :
        /\ SetCache(r.cache)
        /\ ret' = Result("Remove", k, Nil, r.ok, <<>>)
        /\ want' = RefSet(RefDrop(RefPairs, k))
        /\ UNCHANGED <<added, buf, phase, persistVars, lockVars, opt>>

PurgeRefined ==
    /\ SetCache(PurgeOp(Cache))
    /\ ret' = Result("Purge", NoKey, Nil, TRUE, <<>>)
    /\ want' = RefSet(<<>>)
    /\ UNCHANGED <<added, buf, phase, persistVars, lockVars, opt>>

NextRefine ==
    \/ \E k \in AllKeys, v \in Values : AddRefined(k, v)
    \/ \E k \in AllKeys : GetRefined(k)
    \/ \E k \in AllKeys : RemoveRefined(k)
    \/ PurgeRefined

SpecRefine == Init /\ [][NextRefine]_vars

\* ----------------------------------------------------------------- C1
\* C1: in every run that consists of Add calls only, on a cache built with
\* capacity N > 1, Length() <= N after every call and Length() equals
\* min(number of distinct keys added so far, N).
C1_CapacityInvariant ==
    added.only =>
        /\ LengthOp(Cache) <= size
        /\ LengthOp(Cache) = Min(Len(added.keys), size)

\* More distinct keys were added than the cache can hold.
C1_Witness ==
    /\ added.only
    /\ ret.op = "Add"
    /\ Len(added.keys) > size

\* ----------------------------------------------------------------- C2
\* C2: after any sequence of Add, Get, Contains, Remove, Purge and Import
\* calls (Import of any decodable payload, keys possibly repeated) the list
\* and the index have the same number of entries, at most the capacity, and
\* index[k] is the list entry whose key is k, so that Keys() holds each key
\* once and Contains(k) is true exactly for the keys of Keys().
C2_IndexMatchesList ==
    /\ Len(evictList) = Cardinality(DOMAIN items)
    /\ Len(evictList) <= size
    /\ \A k \in DOMAIN items :
          /\ items[k] \in 1..Len(evictList)
          /\ evictList[items[k]].key = k
    /\ \A i, j \in 1..Len(evictList) :
          evictList[i].key = evictList[j].key => i = j
    /\ \A k \in AllKeys : ContainsOp(Cache, k) <=> k \in KeySet(Cache)

\* ----------------------------------------------------------------- C3
\* C3: Add(k, v) of a key the cache does not hold puts k at the front of
\* Keys(); it returns true and removes exactly one entry, the last of Keys(),
\* iff the cache already held `size` entries, and otherwise returns false and
\* removes nothing.  Hence, while only Add has been called, Keys() is the
\* last min(n, size) distinct keys added, newest first.
C3_AddNewStep ==
    (ret'.op = "Add" /\ ~ContainsOp(Cache, ret'.key)) =>
        /\ ret'.ok <=> (LengthOp(Cache) = size)
        /\ ret'.ok =>
              KeysOp(CacheNext) =
                <<ret'.key>> \o SubSeq(KeysOp(Cache), 1, LengthOp(Cache) - 1)
        /\ ~ret'.ok => KeysOp(CacheNext) = <<ret'.key>> \o KeysOp(Cache)
        /\ evictList'[1] = [key |-> ret'.key, value |-> ret'.val]

C3_AddOnlyKeys ==
    added.only =>
        KeysOp(Cache) = SubSeq(added.keys, 1, Min(Len(added.keys), size))

C3_AddNew == [][C3_AddNewStep /\ C3_AddOnlyKeys']_vars

\* size + 1 distinct keys were added and nothing else was called: the last
\* Add evicted.
C3_Witness ==
    /\ added.only
    /\ ret.op = "Add"
    /\ ret.ok
    /\ ~ret.hit
    /\ Len(added.keys) = size + 1

\* ----------------------------------------------------------------- C4
\* C4: Add(k, v2) of a key the cache holds overwrites its value with v2,
\* moves k to the front, returns false, leaves Length() and the set of keys
\* as they were (nothing is evicted, also at capacity), keeps the relative
\* order of the other keys, and a following Get(k) returns v2.
C4_AddExistingStep ==
    (ret'.op = "Add" /\ ContainsOp(Cache, ret'.key)) =>
        /\ ~ret'.ok
        /\ LengthOp(CacheNext) = LengthOp(Cache)
        /\ KeySet(CacheNext) = KeySet(Cache)
        /\ DOMAIN items' = DOMAIN items
        /\ KeysOp(CacheNext)[1] = ret'.key
        /\ Tail(KeysOp(CacheNext)) = RemoveAt(KeysOp(Cache), items[ret'.key])
        /\ \A k \in (DOMAIN items) \ {ret'.key} :
              ValueOf(CacheNext, k) = ValueOf(Cache, k)
        /\ ValueOf(CacheNext, ret'.key) = ret'.val
        /\ GetOp(CacheNext, ret'.key).ok
        /\ GetOp(CacheNext, ret'.key).value = ret'.val
        /\ size' = size

C4_AddExisting == [][C4_AddExistingStep]_vars

\* A full cache was given a held key, not at the front, with another value.
C4_Witness ==
    /\ ret.op = "Add"
    /\ ret.hit
    /\ ~ret.ok
    /\ LengthOp(Cache) = size
    /\ added.only
    /\ added.keys = <<"A", "B">>
    /\ evictList = <<[key |-> "A", value |-> "v2"], [key |-> "B", value |-> "v1"]>>

\* ----------------------------------------------------------------- C5
\* C5: Get(k) of a held key returns (value of k, true) and moves k to the
\* front of Keys(), the other keys keeping their relative order (Add A, B, C
\* then Get(A) gives [A, C, B]); Get(k) of a key not held returns
\* (nil, false) and leaves Keys(), the values and the capacity as they were.
C5_GetStep ==
    /\ (ret'.op = "Get" /\ ContainsOp(Cache, ret'.key)) =>
          /\ ret'.ok
          /\ ret'.val = ValueOf(Cache, ret'.key)
          /\ KeysOp(CacheNext)[1] = ret'.key
          /\ Tail(KeysOp(CacheNext)) = RemoveAt(KeysOp(Cache), items[ret'.key])
          /\ Without(KeysOp(CacheNext), ret'.key) = Without(KeysOp(Cache), ret'.key)
          /\ \A k \in DOMAIN items : ValueOf(CacheNext, k) = ValueOf(Cache, k)
          /\ DOMAIN items' = DOMAIN items
          /\ size' = size
    /\ (ret'.op = "Get" /\ ~ContainsOp(Cache, ret'.key)) =>
          /\ ~ret'.ok
          /\ ret'.val = Nil
          /\ CacheNext = Cache
    /\ (/\ ret'.op = "Get"
        /\ ret'.key = "A"
        /\ added.only
        /\ added.keys = <<"C", "B", "A">>
        /\ size >= 3) =>
          KeysOp(CacheNext) = <<"A", "C", "B">>

C5_Get == [][C5_GetStep]_vars

\* Add A, B, C, then Get(A), on a cache that holds all three.
C5_Witness ==
    /\ ret.op = "Get"
    /\ ret.key = "A"
    /\ ret.ok
    /\ ret.val \in Values
    /\ KeysOp(Cache) = <<"A", "C", "B">>
    /\ C2_IndexMatchesList

\* ----------------------------------------------------------------- C6
\* C6: Contains, Keys, Length, Snapshot and Export, in any state and any
\* number of times, leave Keys(), every key's value and the capacity as they
\* were.
ReadOnlyOps == {"Contains", "Keys", "Length", "Snapshot", "Export"}

C6_ReadOnlyStep ==
    ret'.op \in ReadOnlyOps =>
        /\ KeysOp(CacheNext) = KeysOp(Cache)
        /\ SnapshotOp(CacheNext) = SnapshotOp(Cache)
        /\ items' = items
        /\ size' = size

C6_ReadOnly == [][C6_ReadOnlyStep]_vars

\* Contains was asked for a held key that is not at the front.
C6_Witness ==
    /\ ret.op = "Contains"
    /\ ret.ok
    /\ LengthOp(Cache) >= 2
    /\ KeysOp(Cache)[1] # ret.key

\* ----------------------------------------------------------------- C7
\* C7: Remove(k) returns true and deletes k when the cache holds k, and
\* returns false and changes nothing when it does not; either way every
\* other key stays held with its value and the other keys keep their
\* relative order in Keys().
C7_RemoveStep ==
    /\ (ret'.op = "Remove" /\ ContainsOp(Cache, ret'.key)) =>
          /\ ret'.ok
          /\ ~ContainsOp(CacheNext, ret'.key)
          /\ ~GetOp(CacheNext, ret'.key).ok
          /\ LengthOp(CacheNext) = LengthOp(Cache) - 1
          /\ KeysOp(Cache)[items[ret'.key]] = ret'.key
          /\ KeysOp(CacheNext) = RemoveAt(KeysOp(Cache), items[ret'.key])
          /\ Without(KeysOp(CacheNext), ret'.key) = Without(KeysOp(Cache), ret'.key)
          /\ DOMAIN items' = (DOMAIN items) \ {ret'.key}
          /\ \A k \in DOMAIN items' : ValueOf(CacheNext, k) = ValueOf(Cache, k)
          /\ size' = size
    /\ (ret'.op = "Remove" /\ ~ContainsOp(Cache, ret'.key)) =>
          /\ ~ret'.ok
          /\ CacheNext = Cache

C7_Remove == [][C7_RemoveStep]_vars

\* A key in the middle of three was removed.
C7_Witness ==
    /\ ret.op = "Remove"
    /\ ret.ok
    /\ ret.hit
    /\ LengthOp(Cache) = 2
    /\ size = 3
    /\ C2_IndexMatchesList

\* ----------------------------------------------------------------- C8
\* C8: for a cache state reached by Add/Get/Remove (the empty cache too),
\* Export into a buffer, Purge, then Import of the buffer gives back the same
\* Keys() order, the same value for every key and the same capacity; and
\* importing the buffer into another cache built with another capacity gives
\* that cache the exporter's keys, order, values and capacity.
C8_RoundTrip ==
    phase \in {"reimported", "moved"} =>
        /\ ret.out = "nil"
        /\ SnapshotOp(Cache) = want.snap
        /\ size = want.snap.size
        /\ KeysOp(Cache) = [i \in 1..Len(want.snap.entries) |-> want.snap.entries[i].Key]
        /\ \A i \in 1..Len(want.snap.entries) :
              /\ GetOp(Cache, want.snap.entries[i].Key).ok
              /\ GetOp(Cache, want.snap.entries[i].Key).value
                    = want.snap.entries[i].Value

\* A cache of three entries whose order a Get had changed was exported,
\* purged and imported again.
C8_Witness ==
    /\ phase = "reimported"
    /\ ret.op = "Import"
    /\ KeysOp(Cache) = <<"B", "C", "A">>
    /\ evictList[1].value # evictList[2].value

\* ----------------------------------------------------------------- C9
\* C9: Import of a payload that declares capacity c > 1 and carries m > c
\* entries with distinct keys K1..Km (most recent first) leaves a cache of
\* capacity c and length c whose Keys() is [K1..Kc]; K(c+1)..Km are absent.
DistinctKeys(es) == \A i, j \in 1..Len(es) : es[i].K = es[j].K => i = j

C9_ImportTruncates ==
    (/\ phase = "imported"
     /\ want.kind = "payload"
     /\ want.data.Size > 1
     /\ Len(want.data.Entries) > want.data.Size
     /\ DistinctKeys(want.data.Entries)) =>
        /\ ret.out = "nil"
        /\ size = want.data.Size
        /\ LengthOp(Cache) = want.data.Size
        /\ KeysOp(Cache) = [i \in 1..want.data.Size |-> want.data.Entries[i].K]
        /\ \A i \in 1..want.data.Size :
              /\ ContainsOp(Cache, want.data.Entries[i].K)
              /\ ValueOf(Cache, want.data.Entries[i].K) = want.data.Entries[i].V
        /\ \A i \in (want.data.Size + 1)..Len(want.data.Entries) :
              /\ ~ContainsOp(Cache, want.data.Entries[i].K)
              /\ want.data.Entries[i].K \notin KeySet(Cache)

\* A payload of capacity 2 with three distinct keys was imported.
C9_Witness ==
    /\ phase = "imported"
    /\ want.kind = "payload"
    /\ want.data.Size = 2
    /\ Len(want.data.Entries) = 3
    /\ DistinctKeys(want.data.Entries)
    /\ ret.op = "Import"

\* ---------------------------------------------------------------- C10
\* C10: a failing Import changes nothing: bytes that cannot be decoded give
\* a decode error, a decodable payload that declares capacity <= 1 gives a
\* validation error different from the decode error, and in both cases the
\* cache keeps its Keys() order, values and capacity.
C10_FailedImportStep ==
    (phase = "crafted" /\ phase' = "imported") =>
        /\ want.kind = "broken" => ret'.out = "decode"
        /\ (want.kind = "payload" /\ want.data.Size <= 1) => ret'.out = "invalid"
        /\ (want.kind = "payload" /\ want.data.Size > 1) => ret'.out = "nil"
        /\ ret'.out # "nil" =>
              /\ ~ret'.ok
              /\ CacheNext = Cache

C10_FailedImport == [][C10_FailedImportStep]_vars

\* A payload of capacity 1 with entries was refused by a cache holding two keys.
C10_Witness ==
    /\ phase = "imported"
    /\ want.kind = "payload"
    /\ want.data.Size = 1
    /\ Len(want.data.Entries) >= 1
    /\ ret.out = "invalid"
    /\ LengthOp(Cache) = 2

\* ----------------------------------------------------------------- C11
\* C11: when shutdown is signalled (context cancelled or Stop) with the
\* worker idle, draining nudges, deciding or in the debounce wait, with no
\* MarkDirty begun afterwards and no I/O failure, the worker terminates,
\* having made exactly one successful flush since the signal if the
\* controller was dirty at the signal and none if it was clean; in no case
\* does it flush twice.
C11_ShutdownFlush ==
    /\ [](run.pc = "done" =>
            /\ obs.stop = "dirty" => obs.flushes = 1
            /\ obs.stop = "clean" => obs.flushes = 0
            /\ obs.flushes <= 1)
    /\ (Shutdown ~> run.pc = "done")

\* The worker has terminated after a shutdown that found the controller
\* dirty, and has flushed since.
C11_Witness ==
    /\ run.pc = "done"
    /\ obs.stop = "dirty"
    /\ obs.flushes = 1
    /\ fs.target.exists

\* ----------------------------------------------------------------- C12
\* C12: if every change of the cache (Add, or Get hit) was followed by a
\* MarkDirty call that returned before shutdown was signalled, and no file
\* operation fails, then once the worker has terminated the file at the
\* target path is the snapshot of the live cache: same capacity, same keys
\* in the same order, same values.
C12_NoMutationLost ==
    (run.pc = "done" /\ evictList # <<>>) =>
        /\ fs.target.exists
        /\ fs.target.data = ExportOp(Cache)

\* ----------------------------------------------------------------- C13
\* C13: while the worker runs, if every change of the cache is followed by
\* MarkDirty, the changes stop and no file operation fails, the file at the
\* target path eventually equals the snapshot of the live cache and stays
\* equal.  Stated for the states in which nothing can happen any more
\* unless a new request comes: the worker is blocked in its select with no
\* nudge pending and every MarkDirty call has returned; there the file must
\* already be the snapshot of the cache.
C13_EventuallyConsistent ==
    (/\ run.pc = "select"
     /\ persist.ch = 0
     /\ ~Shutdown
     /\ caller = "idle"
     /\ evictList # <<>>) =>
        /\ fs.target.exists
        /\ fs.target.data = ExportOp(Cache)

\* ----------------------------------------------------------------- C14
\* C14: MarkDirty calls that all fall within less than the minimum interval
\* after construction, or after the last flush, cause exactly one write of
\* the file, made when the minimum interval has elapsed: with calls in the
\* two windows only there are at most two writes, a write is in progress
\* only at the instant the interval is up, a dirty controller is not left
\* waiting past that instant, and the wake-up by the nudge that the burst
\* left in the channel finds the flag clear and writes nothing.
C14_DebounceCoalescing ==
    /\ obs.flushes <= 2
    /\ InFlush => clock.since = minInterval
    /\ (persist.ipDirty = 1 /\ caller = "idle" /\ clock.since >= minInterval)
           => ~Blocked
    /\ (obs.flushes = 0 /\ clock.since > minInterval) => persist.ipDirty = 0

\* A burst left a nudge behind: after the one write the worker has woken
\* again, waited, and is entering flushIfDirty with the flag clear.
C14_Witness ==
    /\ obs.flushes = 1
    /\ run.pc = "flush"
    /\ persist.ipDirty = 0
    /\ clock.since = minInterval
    /\ fs.target.exists

\* ----------------------------------------------------------------- C15
\* C15: whatever the callers do, a flush by the running worker (one that is
\* not the final flush of a shutdown) is under way only when at least the
\* minimum interval has passed since the previous write of the file, or,
\* for the first one, since the controller was constructed.
C15_FlushSpacing ==
    (/\ run.after = "loop"
     /\ run.pc \in {"export", "create", "write", "sync", "close", "rename"}) =>
        clock.sinceWrite >= minInterval

\* The running worker is about to rename its second snapshot into place.
C15_Witness ==
    /\ obs.stop = "none"
    /\ obs.flushes = 1
    /\ run.after = "loop"
    /\ run.pc = "rename"
    /\ persist.ch = 1

\* ----------------------------------------------------------------- C16
\* C16: when MarkDirty is called again and again with gaps shorter than the
\* minimum interval and file operations succeed, the time since the last
\* successful write of the file (or since construction) never exceeds the
\* maximum interval, three times the minimum interval.
C16_MaxInterval ==
    clock.sinceWrite <= PersistIntervalMultiplicate * minInterval

\* A second write has been made under continuous marking and a full
\* minimum interval has passed since, with the controller dirty again.
C16_Witness ==
    /\ obs.flushes >= 2
    /\ clock.sinceWrite = minInterval
    /\ persist.ipDirty = 1
    /\ obs.marked

\* ----------------------------------------------------------------- C17
\* C17: MarkDirty sets the dirty flag and leaves at most one nudge pending:
\* the channel never holds more than one nudge, a call made while a nudge is
\* pending adds none, after the call a nudge is pending, and the call can
\* always take its next step, whatever the worker is doing.
C17_MarkDirtyStep ==
    /\ (caller = "mark" /\ caller' = "send") => persist'.ipDirty = 1
    /\ (caller = "send" /\ caller' = "idle") =>
           /\ persist'.ch = 1
           /\ persist.ch = 1 => persist'.ch = persist.ch
           /\ persist'.ipDirty = persist.ipDirty

C17_MarkDirty ==
    /\ [](/\ persist.ch <= 1
          /\ caller = "mark" => ENABLED MarkDirtyStore
          /\ caller = "send" => ENABLED MarkDirtySend)
    /\ [][C17_MarkDirtyStep]_vars

\* A call is at its send while a nudge is already pending and the worker is
\* in the middle of a flush.
C17_Witness ==
    /\ caller = "send"
    /\ persist.ch = 1
    /\ persist.ipDirty = 1
    /\ run.pc = "write"

\* ----------------------------------------------------------------- C18
\* C18: a flush that fails at temp-file creation, write, sync, close or
\* rename leaves the dirty flag set and the last-flush time as it was,
\* leaves no temporary file behind, has not touched the file at the target
\* path at any of its steps, and does not stop the worker: unless the flush
\* was the final one of a shutdown, Run is back in its select.
C18_FailedFlushStep ==
    /\ (/\ run.pc \in {"export", "create", "write", "sync", "close", "rename"}
        /\ run'.pc # "clear") => fs'.target = fs.target
    /\ (/\ run.pc \in {"create", "write", "sync", "close", "rename"}
        /\ run'.pc \in {"select", "done"}) =>
           /\ persist'.ipDirty = 1
           /\ clock'.since = clock.since
           /\ ~fs'.tmp.exists
           /\ run.after = "loop" => run'.pc = "select"
           /\ run.after = "return" => run'.pc = "done"

C18_FailedFlush == [][C18_FailedFlushStep]_vars

\* A flush has failed after an earlier one had succeeded: the worker is back
\* in its select with nothing to wake it, the flag is still set, and the
\* file is the older snapshot.
C18_Witness ==
    /\ run.pc = "select"
    /\ persist.ch = 0
    /\ caller = "idle"
    /\ persist.ipDirty = 1
    /\ ~Shutdown
    /\ ~fs.tmp.exists
    /\ fs.target.exists
    /\ fs.target.data # ExportOp(Cache)

\* ----------------------------------------------------------------- C19
\* C19: at every instant during and after a flush, failed or not, the target
\* path holds no file yet, or one whole snapshot, the previous or the new
\* one: the file there is always complete, synced and closed, and it changes
\* only in the one rename step, which puts there a temp file of the same
\* directory that was written in full, synced and closed before.
C19_AtomicStep ==
    fs'.target # fs.target =>
        /\ run.pc = "rename"
        /\ fs.tmp.exists /\ fs.tmp.synced /\ ~fs.tmp.open
        /\ fs.tmp.data = run.buf
        /\ Complete(fs.tmp.data)
        /\ fs'.target = fs.tmp
        /\ ~fs'.tmp.exists

C19_AtomicReplace ==
    /\ [](fs.target.exists =>
            /\ Complete(fs.target.data)
            /\ fs.target.synced
            /\ ~fs.target.open)
    /\ [][C19_AtomicStep]_vars

\* The temp file holds the new snapshot, about to be renamed over a target
\* that holds a different, older one.
C19_Witness ==
    /\ run.pc = "rename"
    /\ fs.target.exists
    /\ fs.tmp.exists
    /\ fs.tmp.data # fs.target.data
    /\ Len(fs.tmp.data) > 2

\* ----------------------------------------------------------------- C20
\* C20: ExportToFileAtomic onto a path that holds corrupt bytes succeeds,
\* leaves there a whole snapshot of the cache and no temp file; ImportFromFile
\* then reads it without error into any cache, which gets the capacity, the
\* keys in the order and the values the exporting cache had at export time.
C20_AtomicExportOverCorrupt ==
    /\ phase = "exported" =>
           /\ ret.ok
           /\ fs.target.exists
           /\ fs.target.data = ExportOp(Cache)
           /\ SnapshotOp(Cache) = want.snap
           /\ Complete(fs.target.data)
           /\ ~fs.tmp.exists
    /\ phase = "reloaded" =>
           /\ ret.op = "ImportFromFile"
           /\ ret.ok
           /\ SnapshotOp(Cache) = want.snap
           /\ \A k \in KeySet(Cache) : ContainsOp(Cache, k)
           /\ ~fs.tmp.exists

\* The file written over the corrupt bytes has been imported; the cache holds
\* the two or more entries that were exported, in their order.
C20_Witness ==
    /\ phase = "reloaded"
    /\ ret.op = "ImportFromFile"
    /\ ret.ok
    /\ Len(want.snap.entries) >= 2
    /\ KeysOp(Cache) = [i \in 1..Len(want.snap.entries) |-> want.snap.entries[i].Key]
    /\ fs.target.exists

\* ----------------------------------------------------------------- C21
\* C21: Import is one atomic replacement for concurrent callers.  While an
\* Import is between its reset and its return, no Snapshot is inside its
\* loop and no Contains, Keys, Length or Get runs; a Snapshot returns the
\* list as it is at its return, with no more entries than the capacity it
\* reports; and Import returns with the cache that Import as one step gives
\* for the same bytes.
C21_ImportStep ==
    /\ ((\E k \in AllKeys : Contains(k) \/ Get(k)) \/ Keys \/ Length) => ~InImport
    /\ SnapshotRUnlock =>
           /\ ~InImport
           /\ ret'.out = SnapshotOp(Cache)
           /\ Len(ret'.out.entries) <= ret'.out.size
    /\ ExportEncode =>
           /\ ~InImport
           /\ ret'.out = ExportOp(Cache)
    /\ ImportUnlock =>
           /\ Cache = ImportOp(Cache, gor.imp.r).cache
           /\ Len(evictList) <= size

C21_ImportAtomic ==
    /\ [](gor.snap.pc = "read" => ~InImport)
    /\ [][C21_ImportStep]_vars

\* An Import that has pushed more entries than the new capacity allows is
\* about to evict, while an Export waits for the lock with a reader at Keys
\* before it.
C21_Witness ==
    /\ gor.imp.pc = "rebuild"
    /\ gor.imp.rest = <<>>
    /\ Len(evictList) > size
    /\ gor.snap.pc = "idle"
    /\ ret.op = "Keys"

\* ----------------------------------------------------------------- C22
\* C22: with Add, Get, Remove and Purge called at any moment, what Snapshot
\* has collected is at every step the front part of the list as it stands,
\* and what Snapshot or Export returns is the whole list, most recently used
\* first, as it stands at the return: no key twice, no more entries than
\* the capacity, each value the one the cache holds for that key.
C22_ExportStep ==
    /\ SnapshotRUnlock =>
           /\ ret'.out.size = size
           /\ Len(ret'.out.entries) <= size
           /\ Len(ret'.out.entries) = Len(evictList)
           /\ \A i \in 1..Len(evictList) :
                  /\ ret'.out.entries[i].Key = KeysOp(Cache)[i]
                  /\ ret'.out.entries[i].Value = GetOp(Cache, KeysOp(Cache)[i]).value
                  /\ \A j \in 1..Len(evictList) :
                         ret'.out.entries[i].Key = ret'.out.entries[j].Key => i = j
    /\ ExportEncode =>
           /\ ~GobDecode(ret'.out).err
           /\ GobDecode(ret'.out).data.Size = size
           /\ Len(GobDecode(ret'.out).data.Entries) = Len(evictList)
           /\ \A i \in 1..Len(evictList) :
                  /\ GobDecode(ret'.out).data.Entries[i].K = evictList[i].key
                  /\ GobDecode(ret'.out).data.Entries[i].V = evictList[i].value

C22_ExportConsistent ==
    /\ [](gor.snap.pc = "read" =>
             /\ gor.snap.size = size
             /\ gor.snap.entries =
                    SubSeq(SnapshotOp(Cache).entries, 1, gor.snap.e - 1))
    /\ [][C22_ExportStep]_vars

\* A Snapshot is halfway through a full list while the last call that
\* returned was an Add that evicted.
C22_Witness ==
    /\ gor.snap.pc = "read"
    /\ gor.snap.e = 2
    /\ Len(evictList) = size
    /\ ret.op = "Add"
    /\ ret.ok

\* ----------------------------------------------------------------- C23
\* C23: Snapshot returns the capacity and one Pair per entry, the keys as
\* Keys() returns them, most recently used first, each value the one Get
\* returns for its key; and overwriting the key or the value of a returned
\* Pair changes neither Keys() nor what Get returns for any key.
C23_SnapshotStep ==
    /\ TakeSnapshot =>
           /\ ret'.out.size = size
           /\ Len(ret'.out.entries) = LengthOp(Cache)
           /\ \A i \in 1..Len(ret'.out.entries) :
                  /\ ret'.out.entries[i].Key = KeysOp(Cache)[i]
                  /\ ret'.out.entries[i].Value =
                         GetOp(Cache, ret'.out.entries[i].Key).value
    /\ (\E i \in 1..MaxCap, p \in MutatedPairs : MutatePair(i, p)) =>
           /\ KeysOp(CacheNext) = KeysOp(Cache)
           /\ size' = size
           /\ \A k \in AllKeys \cup {"MUTATED"} :
                  /\ GetOp(CacheNext, k).ok = GetOp(Cache, k).ok
                  /\ GetOp(CacheNext, k).value = GetOp(Cache, k).value

C23_SnapshotDetached ==
    /\ [](phase = "mutated" /\ ret.op = "Keys" =>
             /\ "MUTATED" \notin {ret.out[i] : i \in 1..Len(ret.out)}
             /\ ret.out = KeysOp(Cache))
    /\ [][C23_SnapshotStep]_vars

\* The key of the first pair of a snapshot of three entries has been
\* overwritten, and Keys() has been called after that.
C23_Witness ==
    /\ phase = "mutated"
    /\ Len(want.snap.entries) = 3
    /\ want.snap.entries[1].Key = "MUTATED"
    /\ ret.op = "Keys"

\* ----------------------------------------------------------------- C25
\* C25: after Purge the cache is empty (Length() = 0, Keys() empty,
\* Contains false for every key) and has the capacity it had: of the next
\* capacity + 1 Adds of distinct keys, the last one evicts and no other.
C25_Purge ==
    phase = "purged" =>
        /\ LengthOp(Cache) = 0
        /\ KeysOp(Cache) = <<>>
        /\ \A k \in AllKeys : ~ContainsOp(Cache, k)
        /\ size = want.snap.size
        /\ Evictions(Cache, [i \in 1..(size + 1) |-> i]) =
               [i \in 1..(size + 1) |-> i = size + 1]

\* A cache filled to its capacity of MaxCap has been purged.
C25_Witness ==
    /\ phase = "purged"
    /\ want.snap.size = MaxCap
    /\ Len(want.snap.entries) = MaxCap

\* ----------------------------------------------------------------- C26
\* C26: the capacity changes only in an Import that returns no error: a
\* step in which it changes is an Import that succeeds, so Add, Get,
\* Contains, Remove, Keys, Length, Purge, Snapshot and Export leave it as it
\* was, and so does an Import that returns an error.
C26_CapacityStep ==
    /\ size' # size => ret'.op = "Import" /\ ret'.ok
    /\ ret'.op \in {"Add", "Get", "Contains", "Remove", "Keys", "Length",
                    "Purge", "Snapshot", "Export"} => size' = size
    /\ ret'.op = "Import" /\ ~ret'.ok => CacheNext = Cache

C26_Capacity == [][C26_CapacityStep]_vars

\* An Import has succeeded and the capacity is no longer the one the cache
\* was built with.
C26_Witness ==
    /\ ret.op = "Import"
    /\ ret.ok
    /\ size # MaxCap

\* ----------------------------------------------------------------- C24
\* C24, as stated: NewLRUCache(n) and InitializeCache with CacheSize = n
\* return an error and no cache (InitializeCache no controller either, and
\* it starts no worker) exactly when n <= 1, and otherwise a cache with
\* Length() = 0.
C24_AsStated ==
    phase = "running" =>
        IF opt.CacheSize <= 1
        THEN /\ ~ret.ok
             /\ Cache = NoCache
             /\ persist.nil
             /\ run.pc = "none"
        ELSE /\ ret.ok
             /\ Cache # NoCache
             /\ LengthOp(Cache) = 0

\* C24, amended: both calls fail, with no cache, no controller and no
\* worker, exactly when n <= 1; otherwise they return a cache of capacity
\* at least 2, which is empty unless InitializeCache has enabled persistence
\* and the file at the path exists (the warm load).
C24_Construction ==
    phase = "running" =>
        IF opt.CacheSize <= 1
        THEN /\ ~ret.ok
             /\ Cache = NoCache
             /\ persist.nil
             /\ run.pc = "none"
        ELSE /\ ret.ok
             /\ Cache # NoCache
             /\ size >= 2
             /\ LengthOp(Cache) # 0 =>
                    /\ ret.op = "InitializeCache"
                    /\ ~persist.nil
                    /\ fs.target.exists

\* InitializeCache has refused the capacity 1, with a valid path and a
\* snapshot on the disk.
C24_Witness ==
    /\ ret.op = "InitializeCache"
    /\ ~ret.ok
    /\ opt.CacheSize = 1
    /\ opt.CachePath = ValidPath
    /\ fs.target.exists

\* ----------------------------------------------------------------- C27
\* C27: when the configured path is empty, is white space only, or fails
\* the validation, InitializeCache returns no error and an empty cache of
\* the configured capacity, the controller it returns is nil, no worker is
\* started, and nothing has been written to the disk.
C27_PersistenceDisabled ==
    (/\ phase = "running"
     /\ ret.op = "InitializeCache"
     /\ opt.CacheSize >= 2
     /\ \/ TrimSpace(opt.CachePath) = <<>>
        \/ ValidatePersistencePathOp(opt.CachePath, fs).err # "nil")
    => /\ ret.ok
       /\ Cache = NewLRUCache(opt.CacheSize)
       /\ persist.nil
       /\ run.pc = "none"
       /\ ~fs.tmp.exists
       /\ ~fs.probe.exists

\* ----------------------------------------------------------------- C28
\* C28: InitializeCache with a valid path returns no error, a controller
\* and a started worker that has not taken a step, and leaves the disk as
\* it was.  If the file holds a snapshot, the cache it returns has the
\* snapshot's keys in the snapshot's order, with its values; if there is
\* no file, the cache is empty and nothing is logged about the load; if the
\* file cannot be imported, the cache is empty and the failure is logged.
C28_Loaded ==
    (/\ phase = "running"
     /\ ret.op = "InitializeCache"
     /\ opt.CacheSize >= 2
     /\ TrimSpace(opt.CachePath) # <<>>
     /\ ValidatePersistencePathOp(opt.CachePath, fs).err = "nil")
    => /\ ret.ok
       /\ ~persist.nil
       /\ persist.ipDirty = 0
       /\ run.pc = "select"
       /\ ~fs.tmp.exists
       /\ IF ~fs.target.exists
          THEN /\ Cache = NewLRUCache(opt.CacheSize)
               /\ ret.out.log = <<"persistence enabled">>
          ELSE IF GobDecode(fs.target.data).err \/ GobDecode(fs.target.data).data.Size <= 1
          THEN /\ Cache = NewLRUCache(opt.CacheSize)
               /\ ret.out.log = <<"failed to warm-load", "persistence enabled">>
          ELSE /\ Len(KeysOp(Cache)) = Len(GobDecode(fs.target.data).data.Entries)
               /\ \A i \in 1..Len(KeysOp(Cache)) :
                      /\ KeysOp(Cache)[i] = GobDecode(fs.target.data).data.Entries[i].K
                      /\ GetOp(Cache, KeysOp(Cache)[i]).value =
                             GobDecode(fs.target.data).data.Entries[i].V
               /\ ret.out.log = <<"persistence enabled">>

C28_WarmLoad ==
    /\ []C28_Loaded
    /\ [][InitializeCache => fs' = fs]_vars

\* A cache configured with capacity 2 has been started on a snapshot of
\* MaxCap entries, given by a path with white space around it.
C28_Witness ==
    /\ phase = "running"
    /\ ret.op = "InitializeCache"
    /\ opt = [CacheSize |-> 2, CachePath |-> <<Space, "dir", "cache.gob", Space>>]
    /\ fs.target.exists
    /\ Len(evictList) = MaxCap
    /\ ~persist.nil

\* ----------------------------------------------------------------- C29
\* C29: a cache returned by InitializeCache with CacheSize = N never holds
\* more than N entries, at the return and after every later Add, Get and
\* Remove, whatever capacity the cache had that wrote the snapshot file.
C29_MaxSize == phase = "running" => LengthOp(Cache) <= opt.CacheSize

\* ----------------------------------------------------------------- C30
\* C30: ValidatePersistencePath returns the empty path and no error for an
\* empty or white-space-only input; an error and the empty path when the
\* parent directory is missing, is no directory or is not writable; and an
\* absolute, non-empty path and no error when the parent is a writable
\* directory, whether the file exists or not.  Every call leaves the disk
\* as it was: no target file, no directory and no probe file is new.
C30_Validated ==
    phase = "validated" =>
        /\ ~fs.probe.exists
        /\ fs.dirs = TestDirs
        /\ IF SelectSeq(opt.CachePath, LAMBDA x : x # Space) = <<>>
           THEN ret.out.path = <<>> /\ ret.ok
           ELSE IF ParentKind(opt.CachePath, fs) \in {"missing", "file", "rodir"}
           THEN ret.out.path = <<>> /\ ~ret.ok
           ELSE /\ ret.ok
                /\ ret.out.path # <<>>
                /\ Head(ret.out.path) = "/"
                /\ ret.out.path = Cwd \o ValidPath

C31_MarkDuringFlushKept ==
    (run.pc = "stamp" /\ obs.late) => persist.ipDirty = 1

\* ----------------------------------------------------------------- C32
\* The rename of the running flush has succeeded: the file at the target
\* path is the temp file of this flush (the snapshot it took, synced and
\* closed) and no temp file is left.
C32_Renamed ==
    /\ fs.target = File(run.buf, TRUE, FALSE)
    /\ fs.tmp = NoFile

\* C32: the flag goes from dirty to clean only in the step of flushIfDirty
\* that follows its successful rename, and the last-flush time is moved only
\* in the step after that, the last of the same flush; no other step does
\* either; a flushIfDirty that finds the flag clean returns at once, and
\* the files are touched only between CreateTemp and Rename of a flush that
\* found the flag dirty.
C32_CleanOnlyAfterRename ==
    [][/\ (persist.ipDirty = 1 /\ persist'.ipDirty = 0) =>
              (run.pc = "clear" /\ run'.pc = "stamp" /\ C32_Renamed)
       /\ clock'.since < clock.since =>
              (/\ run.pc = "stamp"
               /\ run'.pc \in {"select", "done"}
               /\ C32_Renamed)
       /\ (run.pc = "flush" /\ persist.ipDirty = 0) =>
              (run'.pc \in {"flush", "select", "done"} /\ fs' = fs)
       /\ run'.pc = "export" => (run.pc = "export" \/ persist.ipDirty = 1)
       /\ fs' # fs =>
              run.pc \in {"create", "write", "sync", "close", "rename"}]_vars

\* A flush has cleared the flag after its rename and is about to store the
\* last-flush time, which lies in the past.
C32_Witness ==
    /\ run.pc = "stamp"
    /\ persist.ipDirty = 0
    /\ C32_Renamed
    /\ clock.since > 0

\* ----------------------------------------------------------------- C33
\* C33: the worker's way from a nudge to the flush.  Taking the nudge leads
\* to the drain loop, which is left only with the channel empty; the
\* decision then calls flushIfDirty at once when the time since the last
\* flush has reached the maximum interval or the minimum interval, and
\* otherwise starts a wait of exactly the rest of the minimum interval; the
\* wait ends either by its timer having run out, with flushIfDirty and back
\* to the select, or by a shutdown signal, with flushIfDirty and the return
\* of Run; with a shutdown signalled and the timer still running nothing
\* but that last step is possible and no time passes.
C33_WorkerDecision ==
    [][/\ (run.pc = "select" /\ run'.pc # "select") =>
              \/ run'.pc = "drain" /\ persist.ch > 0
              \/ run' = CallFlush("return") /\ Shutdown
       /\ (run.pc = "drain" /\ run'.pc # "drain") =>
              (run'.pc = "decide" /\ persist.ch = 0)
       /\ (run.pc = "decide" /\ run'.pc # "decide") =>
              IF clock.since >= maxInterval \/ clock.since >= minInterval
              THEN run' = CallFlush("loop") /\ clock' = clock
              ELSE /\ run'.pc = "wait"
                   /\ clock'.timer = minInterval - clock.since
                   /\ clock'.since = clock.since
       /\ (run.pc = "wait" /\ run'.pc # "wait") =>
              \/ run' = CallFlush("loop") /\ clock.timer = 0
              \/ run' = CallFlush("return") /\ Shutdown
       /\ (run.pc = "wait" /\ Shutdown /\ clock.timer > 0) =>
              /\ clock'.since = clock.since
              /\ run' # run => run' = CallFlush("return")
       /\ (run.after = "return" /\ run.pc # "done") =>
              run'.pc \notin {"select", "drain", "decide", "wait"}]_vars

\* Shutdown has been signalled while the worker waits for the rest of the
\* minimum interval with the flag set.
C33_Witness ==
    /\ run.pc = "wait"
    /\ Shutdown
    /\ clock.timer > 0
    /\ persist.ipDirty = 1

\* ----------------------------------------------------------------- C34
\* C34: a dirty controller is flushed again without outside help.  Stated
\* for the states in which no help is under way: the flag is set, every
\* MarkDirty call has returned, no shutdown is signalled, the worker is in
\* its outer select, and the maximum interval since the last successful
\* flush has passed.  There the worker must be able to take a step (its
\* periodic check is due), whether or not a nudge is pending.
C34_RetryWithoutHelp ==
    (/\ persist.ipDirty = 1
     /\ caller = "idle"
     /\ ~Shutdown
     /\ run.pc = "select"
     /\ clock.since >= maxInterval) => ENABLED Worker

C36_ChangeThenMark ==
    [][/\ Cache' # Cache =>
              /\ caller = "idle"
              /\ caller' = "mark"
              /\ persist' = persist
       /\ (caller = "mark" /\ caller' # "mark") =>
              /\ caller' = "send"
              /\ persist'.ipDirty = 1
              /\ Cache' = Cache
       /\ (caller = "send" /\ caller' # "send") =>
              /\ caller' = "idle"
              /\ persist'.ch = 1
              /\ Cache' = Cache
       /\ (ret' # ret) =>
              /\ Cache' = Cache
              /\ persist' = persist
              /\ caller = "idle" /\ caller' = "idle"
              /\ ret'.key \notin DOMAIN items]_vars

\* A request has stored the refreshed entry of a hit and is at its MarkDirty
\* call, after an earlier request missed and its lookup failed.
C36_Witness ==
    /\ caller = "mark"
    /\ evictList # <<>>
    /\ evictList[1].value = RefreshedValue
    /\ Len(evictList) = 2
    /\ ret.op = "createNewIPEntry"
    /\ ~ret.ok

\* ----------------------------------------------------------------- C37
\* C37: once shutdown has been signalled (Stop or the context), Run returns
\* at last, whatever the worker was doing, also when MarkDirty goes on
\* being called and file operations fail.
C37_RunReturns == Shutdown ~> run.pc = "done"

\* ----------------------------------------------------------------- C38
\* C38: once Run has returned the worker takes no further step and no file
\* is touched; a MarkDirty call made then is never held up, stores the
\* flag and leaves the nudge slot full; nothing takes the nudge out or
\* clears the flag again.
C38_NoFlushAfterReturn ==
    /\ []((run.pc = "done" /\ caller = "mark") => ENABLED MarkDirtyStore)
    /\ []((run.pc = "done" /\ caller = "send") => ENABLED MarkDirtySend)
    /\ [][run.pc = "done" =>
            /\ run' = run
            /\ fs' = fs
            /\ (caller = "mark" /\ caller' # "mark") =>
                   (caller' = "send" /\ persist'.ipDirty = 1)
            /\ (caller = "send" /\ caller' # "send") =>
                   (caller' = "idle" /\ persist'.ch = 1)
            /\ persist'.ch >= persist.ch
            /\ persist'.ipDirty >= persist.ipDirty]_vars

\* Run has returned after a final flush that wrote the file; time has
\* passed, and a MarkDirty call made since has returned: the flag is set
\* and the slot is full.
C38_Witness ==
    /\ run.pc = "done"
    /\ caller = "idle"
    /\ clock.since > 0
    /\ obs.marked
    /\ persist.ipDirty = 1
    /\ persist.ch = 1
    /\ fs.target.exists
    /\ obs.stop = "dirty"
    /\ obs.flushes = 1

\* ----------------------------------------------------------------- C39
\* C39: no call of Stop, in whatever state of the controller and its worker
\* (worker not yet run, context cancelled, worker returned, Stop called
\* before), makes the process panic.
C39_StopSafe == phase # "panic"

\* ----------------------------------------------------------------- C40
\* C40: after every sequence of Add, Get, Remove and Purge calls on a cache
\* of capacity N, Keys() is the key sequence of the reference list (keys by
\* their last Add or Get hit, newest first, removed and purged keys
\* dropped, the first N kept), and Get(k) finds exactly the keys of that
\* list and returns the value of the latest Add of the key.
C40_RefinesRecencyList ==
    /\ KeysOp(Cache) = RefKeys(RefPairs)
    /\ Len(RefPairs) <= size
    /\ \A k \in AllKeys :
           /\ GetOp(Cache, k).ok = RefHas(RefPairs, k)
           /\ GetOp(Cache, k).ok => GetOp(Cache, k).value = RefValue(RefPairs, k)

\* An Add to the full cache has evicted the oldest entry, which had been
\* stored with the second value; the list holds N entries, the newest
\* first, and a key is missing from it.
C40_Witness ==
    /\ ret.op = "Add"
    /\ ret.ok
    /\ Len(RefPairs) = size
    /\ RefPairs[1].key = ret.key
    /\ RefPairs[size].value = Vals[2]
    /\ \E k \in AllKeys : ~RefHas(RefPairs, k)

====
